---- MODULE Spec2Model ----
(***************************************************************************)
(* ChordsPlayer: resolution of a chord symbol into a six-string fingering. *)
(*                                                                         *)
(* Representation.  A chord symbol is a sequence of characters, each a     *)
(* one-character string; the three non-ASCII characters the tables use are *)
(* written "<U+266D>" (flat sign), "<U+00B0>" (degree sign) and "<U+0394>" *)
(* (capital delta).  A note with octave ("C#2") is the pair <<"C#", 2>>.   *)
(* Scores are kept as integers, ScoreScale times the JavaScript number.    *)
(***************************************************************************)
EXTENDS Integers, Sequences, FiniteSets, TLC

VARIABLES
    chordInput,        \* app script: value of the chord input box
    NOTES_DATA,        \* noteUtils.js: the lattice, string -> 8 notes
    STRINGS_ORDER,     \* noteUtils.js: strings from lowest to highest
    currentChord,      \* app script: symbol of the displayed chord, or None
    currentFingering,  \* app script: fingering of the displayed chord, or None
    parseResult,       \* what parseChord gave the last processChordInput, None if not called
    optimizeResult,    \* what findOptimalFingering gave it, None if not called
    anchor,            \* findOptimalFingering: its local rootPosition, None if not called
    fallbackInput,     \* chord notes and name handed to the fallback search alone, or None
    possiblePositions, \* findOptimalFingering: its local positionsByNote in the fallback search, or None
    combinations,      \* generateAllCombinations: what the fallback search generated, or None
    keptCombinations,  \* findOptimalFingering: allCombinations after the cut at line 654, or None
    scoredCombinations,\* findOptimalFingering: the scored candidates before the sort, or None
    samples,           \* the sample files: (string, fret) -> Absent, Present or Broken
    mapInput,          \* fingering and options handed to mapFingeringToSamples, or None
    mapResult,         \* what mapFingeringToSamples returned, or None
    degreeInput,       \* root and note handed to the two degree classifiers, or None
    degreeResult,      \* the degrees determineNoteDegrees and getNoteDegree gave, or None
    audioBufferCache,  \* audioBufferCache.js: path -> the cached buffer, or None
    pendingLoads,      \* audioBufferCache.js: path -> the promise of the pending load, or None
    loadsInFlight,     \* the loads whose async block has not reached its finally clause
    loadsStarted,      \* number of loads started so far
    returned,          \* what the last loadAndCacheAudioBuffer call returned, or None
    isPlaying,         \* app script: a playback started by the Play button is on
    playbackResult,    \* app script: result of the last playChordWithFingering that settled, or None
    playButtonDisabled,\* app script: the disabled attribute of the Play button
    calls,             \* the calls of playChordWithFingering made by the Play button, in order
    timers,            \* the armed timers of handlePlayButtonClick and playChord
    now,               \* the time in seconds
    path,              \* stage in which the last processChordInput left the resolution
    logEntries,        \* app script: the log, newest last
    firstSeen          \* a remembered earlier resolution, or None

vars == <<chordInput, NOTES_DATA, STRINGS_ORDER, currentChord, currentFingering,
          optimizeResult, parseResult, anchor, fallbackInput, possiblePositions, combinations,
          keptCombinations, scoredCombinations, samples, mapInput, mapResult,
          degreeInput, degreeResult, audioBufferCache, pendingLoads, loadsInFlight,
          loadsStarted, returned, isPlaying, playbackResult, playButtonDisabled,
          calls, timers, now, path, logEntries, firstSeen>>

\* the variables only the function-level specifications write
fallbackVars == <<possiblePositions, combinations, keptCombinations, scoredCombinations>>
mapVars      == <<samples, mapInput, mapResult>>
degreeVars   == <<degreeInput, degreeResult>>
cacheVars    == <<audioBufferCache, pendingLoads, loadsInFlight, loadsStarted, returned>>
playVars     == <<isPlaying, playbackResult, playButtonDisabled, calls, timers, now>>

\* null where a string is expected; an optional structured value is None or Some(v)
Null == "null"
None == <<>>
Some(v) == <<v>>

\* F(v) with v evaluated once, and a sequence held as a tuple of values:
\* what an assignment to a local does
Eval(F(_), v) == CHOOSE y \in { F(x) : x \in {v} } : TRUE
Tuple(seq) == seq \o <<>>

(***************************************************************************)
(* Chord symbol parser                                                     *)
(***************************************************************************)

CHROMATIC_SCALE == <<"C", "C#", "D", "D#", "E", "F", "F#", "G", "G#", "A", "A#", "B">>

\* alias -> canonical name, in the order of the source table
NOTE_ALIASES ==
    << <<"C<U+266D>", "B">>, <<"B#", "C">>, <<"E#", "F">>, <<"F<U+266D>", "E">>,
       <<"D<U+266D>", "C#">>, <<"E<U+266D>", "D#">>, <<"G<U+266D>", "F#">>,
       <<"A<U+266D>", "G#">>, <<"B<U+266D>", "A#">>,
       <<"Db", "C#">>, <<"Eb", "D#">>, <<"Gb", "F#">>, <<"Ab", "G#">>, <<"Bb", "A#">>,
       <<"cb", "B">>, <<"b#", "C">>, <<"e#", "F">>, <<"fb", "E">>,
       <<"db", "C#">>, <<"eb", "D#">>, <<"gb", "F#">>, <<"ab", "G#">>, <<"bb", "A#">> >>

\* quality suffix (as characters) -> semitone offsets from the root
CHORD_INTERVALS ==
    << << <<"m", "a", "j">>,            <<0, 4, 7>> >>,
       << <<>>,                         <<0, 4, 7>> >>,
       << <<"m">>,                      <<0, 3, 7>> >>,
       << <<"m", "i", "n">>,            <<0, 3, 7>> >>,
       << <<"-">>,                      <<0, 3, 7>> >>,
       << <<"d", "i", "m">>,            <<0, 3, 6>> >>,
       << <<"<U+00B0>">>,               <<0, 3, 6>> >>,
       << <<"a", "u", "g">>,            <<0, 4, 8>> >>,
       << <<"+">>,                      <<0, 4, 8>> >>,
       << <<"7">>,                      <<0, 4, 7, 10>> >>,
       << <<"m", "a", "j", "7">>,       <<0, 4, 7, 11>> >>,
       << <<"M", "7">>,                 <<0, 4, 7, 11>> >>,
       << <<"<U+0394>">>,               <<0, 4, 7, 11>> >>,
       << <<"m", "7">>,                 <<0, 3, 7, 10>> >>,
       << <<"m", "i", "n", "7">>,       <<0, 3, 7, 10>> >>,
       << <<"-", "7">>,                 <<0, 3, 7, 10>> >>,
       << <<"s", "u", "s", "2">>,       <<0, 2, 7>> >>,
       << <<"s", "u", "s", "4">>,       <<0, 5, 7>> >>,
       << <<"s", "u", "s">>,            <<0, 5, 7>> >>,
       << <<"a", "d", "d", "9">>,       <<0, 4, 7, 14>> >>,
       << <<"2">>,                      <<0, 4, 7, 14>> >>,
       << <<"6">>,                      <<0, 4, 7, 9>> >>,
       << <<"m", "a", "j", "6">>,       <<0, 4, 7, 9>> >>,
       << <<"M", "6">>,                 <<0, 4, 7, 9>> >> >>

Range(s) == { s[i] : i \in DOMAIN s }

\* indexOf: 0-based index of the first occurrence, -1 when absent
IndexOf(s, x) ==
    IF \E i \in DOMAIN s : s[i] = x
    THEN (CHOOSE i \in DOMAIN s : s[i] = x /\ \A j \in 1..(i - 1) : s[j] # x) - 1
    ELSE -1

normalizeNote(note) ==
    IF \E i \in DOMAIN NOTE_ALIASES : NOTE_ALIASES[i][1] = note
    THEN NOTE_ALIASES[CHOOSE i \in DOMAIN NOTE_ALIASES : NOTE_ALIASES[i][1] = note][2]
    ELSE note

getNoteIndex(note) == IndexOf(CHROMATIC_SCALE, normalizeNote(note))

\* variant: the scale read as if the index counted from one
getNoteByIndexFromOne(index) == CHROMATIC_SCALE[((((index - 1) % 12) + 12) % 12) + 1]

\* JavaScript % truncates toward zero; indices here are never negative, the
\* double reduction is kept as written
getNoteByIndex(index) == CHROMATIC_SCALE[(((index % 12) + 12) % 12) + 1]

IsSpace(c) == c = " "

\* String.prototype.trim on a character sequence
RECURSIVE TrimLeft(_)
TrimLeft(cs) == IF cs # <<>> /\ IsSpace(Head(cs)) THEN TrimLeft(Tail(cs)) ELSE cs

RECURSIVE TrimRight(_)
TrimRight(cs) ==
    IF cs # <<>> /\ IsSpace(cs[Len(cs)]) THEN TrimRight(SubSeq(cs, 1, Len(cs) - 1)) ELSE cs

Trim(cs) == TrimRight(TrimLeft(cs))

normalizeChordInput(chordName) == SelectSeq(Trim(chordName), LAMBDA c : ~IsSpace(c))

NoteLetters == {"A", "B", "C", "D", "E", "F", "G"}

\* /^([A-G][#b]?)(.*)$/ : [ok, root, type]; ok = FALSE is the thrown format error
parseChordName(chordName) ==
    LET normalized == normalizeChordInput(chordName)
        matches    == normalized # <<>> /\ normalized[1] \in NoteLetters
        two        == Len(normalized) >= 2 /\ normalized[2] \in {"#", "b"}
        token      == IF two THEN normalized[1] \o normalized[2] ELSE normalized[1]
        rest       == SubSeq(normalized, IF two THEN 3 ELSE 2, Len(normalized))
    IN  IF ~matches
        THEN [ok |-> FALSE, root |-> Null, type |-> <<>>]
        ELSE [ok |-> TRUE, root |-> normalizeNote(token), type |-> rest]

hasChordType(type) == \E i \in DOMAIN CHORD_INTERVALS : CHORD_INTERVALS[i][1] = type

intervalsOf(type) ==
    CHORD_INTERVALS[CHOOSE i \in DOMAIN CHORD_INTERVALS : CHORD_INTERVALS[i][1] = type][2]

\* error kinds, one per message thrown by the parser
InvalidFormat   == "InvalidFormat"     \* "Неверный формат аккорда"
UnsupportedType == "UnsupportedType"   \* "Неподдерживаемый тип аккорда"
UnknownNote     == "UnknownNote"       \* "Неизвестная нота"

\* [ok, notes, error]: the returned note list, or the error thrown
parseChord(chordName) ==
    LET parsed == parseChordName(chordName)
    IN  IF ~parsed.ok
        THEN [ok |-> FALSE, notes |-> <<>>, error |-> InvalidFormat]
        ELSE IF ~hasChordType(parsed.type)
        THEN [ok |-> FALSE, notes |-> <<>>, error |-> UnsupportedType]
        ELSE LET intervals == intervalsOf(parsed.type)
                 rootIndex == getNoteIndex(parsed.root)
             IN  IF rootIndex = -1
                 THEN [ok |-> FALSE, notes |-> <<>>, error |-> UnknownNote]
                 ELSE [ok |-> TRUE,
                       notes |-> [i \in DOMAIN intervals |-> getNoteByIndex(rootIndex + intervals[i])],
                       error |-> Null]

(***************************************************************************)
(* Fretboard lattice                                                       *)
(***************************************************************************)

Strings == {"6E", "5A", "4D", "3G", "2B", "1e"}

\* the lattice as the source declares it (note name, octave)
NotesDataTable ==
    [s \in Strings |->
        CASE s = "6E" -> << <<"E", 1>>, <<"F", 1>>, <<"F#", 1>>, <<"G", 1>>,
                            <<"G#", 1>>, <<"A", 1>>, <<"A#", 1>>, <<"B", 1>> >>
          [] s = "5A" -> << <<"A", 1>>, <<"A#", 1>>, <<"B", 1>>, <<"C", 2>>,
                            <<"C#", 2>>, <<"D", 2>>, <<"D#", 2>>, <<"E", 2>> >>
          [] s = "4D" -> << <<"D", 2>>, <<"D#", 2>>, <<"E", 2>>, <<"F", 2>>,
                            <<"F#", 2>>, <<"G", 2>>, <<"G#", 2>>, <<"A", 2>> >>
          [] s = "3G" -> << <<"G", 2>>, <<"G#", 2>>, <<"A", 2>>, <<"A#", 2>>,
                            <<"B", 2>>, <<"C", 3>>, <<"C#", 3>>, <<"D", 3>> >>
          [] s = "2B" -> << <<"B", 2>>, <<"C", 2>>, <<"C#", 2>>, <<"D", 2>>,
                            <<"D#", 2>>, <<"E", 3>>, <<"F", 3>>, <<"F#", 3>> >>
          [] s = "1e" -> << <<"E", 3>>, <<"F", 3>>, <<"F#", 3>>, <<"G", 3>>,
                            <<"G#", 3>>, <<"A", 3>>, <<"A#", 3>>, <<"B", 3>> >>]

StringsOrderTable == <<"6E", "5A", "4D", "3G", "2B", "1e">>

\* Object.keys(NOTES_DATA): insertion order of the literal
NotesDataKeys == <<"6E", "5A", "4D", "3G", "2B", "1e">>

NOTE_MIDI_NUMBERS(noteName) == IndexOf(CHROMATIC_SCALE, noteName)

extractNoteName(noteWithOctave) == noteWithOctave[1]

extractOctave(noteWithOctave) == noteWithOctave[2]

calculateMidiNumber(noteWithOctave) ==
    (extractOctave(noteWithOctave) + 1) * 12 + NOTE_MIDI_NUMBERS(extractNoteName(noteWithOctave))

\* NOTES_DATA[string][fret], fret counted from 0
noteAt(string, fret) == NOTES_DATA[string][fret + 1]

Position(string, fret, note) == [string |-> string, fret |-> fret, note |-> note]

Muted(string) == Position(string, -1, Null)

Min(S) == CHOOSE x \in S : \A y \in S : x <= y
Max(S) == CHOOSE x \in S : \A y \in S : x >= y

RECURSIVE Flatten(_)
Flatten(ss) == IF ss = <<>> THEN <<>> ELSE Head(ss) \o Flatten(Tail(ss))

\* every (string, fret) in the order the two nested loops visit them; each
\* row of the lattice has eight entries
ScanOrder ==
    Flatten([i \in DOMAIN NotesDataKeys |-> [f \in 1..8 |-> <<NotesDataKeys[i], f - 1>>]])

\* note -> the positions carrying it, in scan order
findAllPossiblePositions(chordNotes) ==
    [n \in Range(chordNotes) |->
        LET hits == SelectSeq(ScanOrder, LAMBDA p : p[2] <= 7 /\ extractNoteName(noteAt(p[1], p[2])) = n)
        IN  [i \in DOMAIN hits |-> Position(hits[i][1], hits[i][2], n)]]

(***************************************************************************)
(* Scoring                                                                 *)
(***************************************************************************)

\* scores are integers: ScoreScale times the source's number, so that the
\* weights -2.0, 1.5, -1.0, 2.0 and a match fraction with a denominator of
\* at most six stay exact
ScoreScale == 60

WeightFretRange      == -120    \* -2.0
WeightOpenStrings    == 90      \*  1.5
WeightBarreChords    == -60     \* -1.0
WeightStandardChords == 120     \*  2.0

STANDARD_CHORDS ==
    << << <<"C">>,
          << Muted("6E"), Position("5A", 3, "C"), Position("4D", 2, "E"),
             Position("3G", 0, "G"), Position("2B", 1, "C"), Position("1e", 0, "E") >> >>,
       << <<"G">>,
          << Position("6E", 3, "G"), Position("5A", 2, "B"), Position("4D", 0, "D"),
             Position("3G", 0, "G"), Position("2B", 0, "B"), Position("1e", 3, "G") >> >>,
       << <<"D">>,
          << Muted("6E"), Muted("5A"), Position("4D", 0, "D"),
             Position("3G", 2, "A"), Position("2B", 3, "D"), Position("1e", 2, "F#") >> >>,
       << <<"A", "m">>,
          << Muted("6E"), Position("5A", 0, "A"), Position("4D", 2, "E"),
             Position("3G", 2, "A"), Position("2B", 1, "C"), Position("1e", 0, "E") >> >>,
       << <<"E", "m">>,
          << Position("6E", 0, "E"), Position("5A", 2, "B"), Position("4D", 2, "E"),
             Position("3G", 0, "G"), Position("2B", 0, "B"), Position("1e", 0, "E") >> >> >>

\* variant: a string without a selected position is left open instead of muted
createFullFingeringOpen(selectedPositions) ==
    [i \in DOMAIN STRINGS_ORDER |->
        LET string == STRINGS_ORDER[i]
        IN  IF \E k \in DOMAIN selectedPositions : selectedPositions[k].string = string
            THEN selectedPositions[CHOOSE k \in DOMAIN selectedPositions :
                                       selectedPositions[k].string = string]
            ELSE Position(string, 0, NOTES_DATA[string][1][1])]

createFullFingering(selectedPositions) ==
    [i \in DOMAIN STRINGS_ORDER |->
        LET string == STRINGS_ORDER[i]
        IN  IF \E k \in DOMAIN selectedPositions : selectedPositions[k].string = string
            THEN selectedPositions[Min({k \in DOMAIN selectedPositions :
                                            selectedPositions[k].string = string})]
            ELSE Muted(string)]

\* variant: only the fretted strings (fret >= 1) are active
calculateFretRangeFretted(fingering) ==
    LET activeFrets == { fingering[i].fret : i \in {k \in DOMAIN fingering : fingering[k].fret >= 1} }
    IN  IF activeFrets = {} THEN 0 ELSE Max(activeFrets) - Min(activeFrets)

calculateFretRange(fingering) ==
    LET activeFrets == { fingering[i].fret : i \in {k \in DOMAIN fingering : fingering[k].fret >= 0} }
    IN  IF activeFrets = {} THEN 0 ELSE Max(activeFrets) - Min(activeFrets)

countOpenStrings(fingering) == Cardinality({i \in DOMAIN fingering : fingering[i].fret = 0})

\* the positions of one fret group, ordered by string, are a barre when no
\* two consecutive ones are more than one string apart
IsBarreGroup(fingering, fret) ==
    LET idx == { IndexOf(STRINGS_ORDER, fingering[i].string) :
                    i \in {k \in DOMAIN fingering : fingering[k].fret = fret} }
    IN  \A a \in idx : a = Max(idx) \/ (a + 1) \in idx

\* variant: a flag, 1 when a barre is required
calculateBarreRequirementFlag(fingering) ==
    LET active == {i \in DOMAIN fingering : fingering[i].fret > 0}
        group(f) == {i \in active : fingering[i].fret = f}
        barres == { f \in {fingering[i].fret : i \in active} :
                        Cardinality(group(f)) > 1 /\ IsBarreGroup(fingering, f) }
    IN  IF Cardinality(active) < 2 THEN 0
        ELSE IF barres = {} THEN 0
        ELSE 1

calculateBarreRequirement(fingering) ==
    LET active == {i \in DOMAIN fingering : fingering[i].fret > 0}
        group(f) == {i \in active : fingering[i].fret = f}
        \* frets with more than one position that pass the adjacency test
        barres == { f \in {fingering[i].fret : i \in active} :
                        Cardinality(group(f)) > 1 /\ IsBarreGroup(fingering, f) }
    IN  IF Cardinality(active) < 2 THEN 0
        ELSE IF barres = {} THEN 0
        ELSE Cardinality(group(Min(barres)))

\* chordName.replace(/[^A-G]/g, '')
baseChordName(chordName) == SelectSeq(chordName, LAMBDA c : c \in NoteLetters)

\* the match fraction, times ScoreScale
calculateStandardChordMatch(fingering, chordName) ==
    LET base == baseChordName(chordName)
    IN  IF ~\E k \in DOMAIN STANDARD_CHORDS : STANDARD_CHORDS[k][1] = base
        THEN 0
        ELSE LET standardFingering ==
                     STANDARD_CHORDS[CHOOSE k \in DOMAIN STANDARD_CHORDS :
                                         STANDARD_CHORDS[k][1] = base][2]
                 counted == {i \in DOMAIN fingering : standardFingering[i].fret # -1}
                 matches == {i \in counted : /\ fingering[i].fret = standardFingering[i].fret
                                             /\ fingering[i].note = standardFingering[i].note}
             IN  IF Cardinality(counted) > 0
                 THEN (Cardinality(matches) * ScoreScale) \div Cardinality(counted)
                 ELSE 0

calculateScore(fingering, chordName) ==
      WeightFretRange * calculateFretRange(fingering)
    + WeightOpenStrings * countOpenStrings(fingering)
    + WeightBarreChords * calculateBarreRequirement(fingering)
    + (WeightStandardChords * calculateStandardChordMatch(fingering, chordName)) \div ScoreScale


(***************************************************************************)
(* Scale degrees and root anchor                                           *)
(***************************************************************************)

Unclassified == -1

degreeOfInterval(interval) ==
    CASE interval = 0  -> 1
      [] interval = 3  -> 3
      [] interval = 4  -> 3
      [] interval = 7  -> 5
      [] interval = 10 -> 7
      [] interval = 11 -> 7
      [] OTHER         -> Unclassified

\* note -> degree, for the chord notes found in the chromatic scale
determineNoteDegrees(chordNotes, rootNote) ==
    LET rootIndex == IndexOf(CHROMATIC_SCALE, rootNote)
    IN  [note \in {n \in Range(chordNotes) : IndexOf(CHROMATIC_SCALE, n) # -1} |->
            degreeOfInterval((IndexOf(CHROMATIC_SCALE, note) - rootIndex + 12) % 12)]

\* chordMatcher.js: the degree of one note; -1 for a name outside the scale
getNoteDegree(note, rootNote, chordNotes) ==
    LET rootIndex == IndexOf(CHROMATIC_SCALE, rootNote)
        noteIndex == IndexOf(CHROMATIC_SCALE, note)
        interval == (noteIndex - rootIndex + 12) % 12
    IN  IF rootIndex = -1 \/ noteIndex = -1 THEN -1
        ELSE CASE interval = 0  -> 1
               [] interval = 3  -> 3
               [] interval = 4  -> 3
               [] interval = 5  -> 4
               [] interval = 7  -> 5
               [] interval = 8  -> 5
               [] interval = 10 -> 7
               [] interval = 11 -> 7
               [] OTHER         -> -1

\* fold of the two nested loops: the first position with the strictly lowest MIDI number
RECURSIVE LowestRootFrom(_, _, _, _)
LowestRootFrom(rootNote, positions, lowestRoot, lowestMidi) ==
    IF positions = <<>> THEN lowestRoot
    ELSE LET p == Head(positions)
             noteWithOctave == noteAt(p[1], p[2])
             noteName == extractNoteName(noteWithOctave)
             midiNumber == calculateMidiNumber(noteWithOctave)
         IN  IF noteName = rootNote /\ (lowestRoot = None \/ midiNumber < lowestMidi)
             THEN LowestRootFrom(rootNote, Tail(positions),
                                 Some([note |-> noteName, string |-> p[1], fret |-> p[2]]),
                                 midiNumber)
             ELSE LowestRootFrom(rootNote, Tail(positions), lowestRoot, lowestMidi)

\* variant: the three lowest strings up to fret 4 are searched first, the
\* whole lattice only when the root is not there
findLowestRootNoteInWindow(rootNote) ==
    LET window == SelectSeq(ScanOrder, LAMBDA p : p[1] \in {"6E", "5A", "4D"} /\ p[2] <= 4)
        inWindow == LowestRootFrom(rootNote, window, None, 0)
    IN  IF inWindow # None THEN inWindow
        ELSE LowestRootFrom(rootNote, ScanOrder, None, 0)

findLowestRootNote(rootNote) == LowestRootFrom(rootNote, ScanOrder, None, 0)

OpenStrings == <<"6E", "5A", "4D", "3G", "2B", "1e">>

\* variant: only the open strings 6E, 5A and 4D are tested
findRootNoteOnOpenStringLowThree(rootNote) ==
    LET hits == {i \in 1..3 : extractNoteName(noteAt(OpenStrings[i], 0)) = rootNote}
    IN  IF hits = {} THEN None
        ELSE LET string == OpenStrings[Min(hits)]
                 openNote == noteAt(string, 0)
             IN  Some([note |-> extractNoteName(openNote), string |-> string, fret |-> 0,
                       midi |-> calculateMidiNumber(openNote),
                       octave |-> extractOctave(openNote)])

findRootNoteOnOpenString(rootNote) ==
    LET hits == {i \in DOMAIN OpenStrings : extractNoteName(noteAt(OpenStrings[i], 0)) = rootNote}
    IN  IF hits = {} THEN None
        ELSE LET string == OpenStrings[Min(hits)]
                 openNote == noteAt(string, 0)
             IN  Some([note |-> extractNoteName(openNote), string |-> string, fret |-> 0,
                       midi |-> calculateMidiNumber(openNote),
                       octave |-> extractOctave(openNote)])

(***************************************************************************)
(* Shape template builder                                                  *)
(***************************************************************************)

\* variant: the branch for a root on 5A is missing
chordShapeForWithout5A(rootString) ==
    CASE rootString = "6E" -> [strings |-> <<"6E", "5A", "4D", "3G", "2B", "1e">>,
                               degrees |-> <<1, 5, 1, 3, 5, 1>>]
      [] rootString = "4D" -> [strings |-> <<"4D", "3G", "2B", "1e">>,
                               degrees |-> <<1, 5, 1, 3>>]
      [] OTHER             -> [strings |-> STRINGS_ORDER,
                               degrees |-> <<1, 3, 5, 1, 3, 5>>]

\* variant: the shape for a root on 5A also plays the fifth on 6E
chordShapeForFifthBelow(rootString) ==
    CASE rootString = "6E" -> [strings |-> <<"6E", "5A", "4D", "3G", "2B", "1e">>,
                               degrees |-> <<1, 5, 1, 3, 5, 1>>]
      [] rootString = "5A" -> [strings |-> <<"6E", "5A", "4D", "3G", "2B", "1e">>,
                               degrees |-> <<5, 1, 5, 1, 3, 5>>]
      [] rootString = "4D" -> [strings |-> <<"4D", "3G", "2B", "1e">>,
                               degrees |-> <<1, 5, 1, 3>>]
      [] OTHER             -> [strings |-> STRINGS_ORDER,
                               degrees |-> <<1, 3, 5, 1, 3, 5>>]

\* variant: the general shape starts on the third
chordShapeForGeneralFromThird(rootString) ==
    CASE rootString = "6E" -> [strings |-> <<"6E", "5A", "4D", "3G", "2B", "1e">>,
                               degrees |-> <<1, 5, 1, 3, 5, 1>>]
      [] rootString = "5A" -> [strings |-> <<"5A", "4D", "3G", "2B", "1e">>,
                               degrees |-> <<1, 5, 1, 3, 5>>]
      [] rootString = "4D" -> [strings |-> <<"4D", "3G", "2B", "1e">>,
                               degrees |-> <<1, 5, 1, 3>>]
      [] OTHER             -> [strings |-> STRINGS_ORDER,
                               degrees |-> <<3, 5, 1, 3, 5, 1>>]

\* the shape chosen for the string of the root position
chordShapeFor(rootString) ==
    CASE rootString = "6E" -> [strings |-> <<"6E", "5A", "4D", "3G", "2B", "1e">>,
                               degrees |-> <<1, 5, 1, 3, 5, 1>>]
      [] rootString = "5A" -> [strings |-> <<"5A", "4D", "3G", "2B", "1e">>,
                               degrees |-> <<1, 5, 1, 3, 5>>]
      [] rootString = "4D" -> [strings |-> <<"4D", "3G", "2B", "1e">>,
                               degrees |-> <<1, 5, 1, 3>>]
      [] OTHER             -> [strings |-> STRINGS_ORDER,
                               degrees |-> <<1, 3, 5, 1, 3, 5>>]

\* String.prototype.includes for a one-character needle
Includes(chordName, c) == \E i \in DOMAIN chordName : chordName[i] = c

\* 'min' contains 'm', so the three tests reduce to two
isMajor(chordName) == ~(Includes(chordName, "m") \/ Includes(chordName, "-"))

\* degree 1 is the root, any other degree the first chord note classified so
targetNoteFor(degree, rootNote, chordNotes, noteDegrees) ==
    IF degree = 1 THEN rootNote
    ELSE LET hits == {k \in DOMAIN chordNotes :
                         chordNotes[k] \in DOMAIN noteDegrees /\ noteDegrees[chordNotes[k]] = degree}
         IN  IF hits = {} THEN Null ELSE chordNotes[Min(hits)]

\* variant: the open string is skipped and never tested
findFretOnStringSkippingOpen(string, targetNote, rootFret) ==
    LET carries(f) == extractNoteName(noteAt(string, f)) = targetNote
        lo == IF rootFret - 2 > 0 THEN rootFret - 2 ELSE 0
        hi == IF rootFret + 2 < 7 THEN rootFret + 2 ELSE 7
        near == {f \in lo..hi : f # 0 /\ carries(f)}
        all == {f \in 1..7 : carries(f)}
    IN  IF near # {} THEN Min(near)
        ELSE IF all # {} THEN Min(all)
        ELSE -1

\* variant: after the open string only the window around the root fret is
\* searched
findFretOnStringNearOnly(string, targetNote, rootFret) ==
    LET carries(f) == extractNoteName(noteAt(string, f)) = targetNote
        lo == IF rootFret - 2 > 0 THEN rootFret - 2 ELSE 0
        hi == IF rootFret + 2 < 7 THEN rootFret + 2 ELSE 7
        near == {f \in lo..hi : f # 0 /\ carries(f)}
    IN  IF carries(0) THEN 0
        ELSE IF near # {} THEN Min(near)
        ELSE -1

\* fret of targetNote on the string: open string, then the window around the
\* root fret, then frets 1..7; -1 when the string does not carry it
findFretOnString(string, targetNote, rootFret) ==
    LET carries(f) == extractNoteName(noteAt(string, f)) = targetNote
        lo == IF rootFret - 2 > 0 THEN rootFret - 2 ELSE 0
        hi == IF rootFret + 2 < 7 THEN rootFret + 2 ELSE 7
        near == {f \in lo..hi : f # 0 /\ carries(f)}
        all == {f \in 1..7 : carries(f)}
    IN  IF carries(0) THEN 0
        ELSE IF near # {} THEN Min(near)
        ELSE IF all # {} THEN Min(all)
        ELSE -1

\* variant: the tone is put at the root fret without a look at the lattice
shapeEntryAtRootFret(string, degree, rootNote, chordNotes, noteDegrees, rootFret) ==
    LET targetNote == targetNoteFor(degree, rootNote, chordNotes, noteDegrees)
    IN  IF targetNote = Null THEN Muted(string) ELSE Position(string, rootFret, targetNote)

\* the entry built for one string of the shape
shapeEntry(string, degree, rootNote, chordNotes, noteDegrees, rootFret) ==
    LET targetNote == targetNoteFor(degree, rootNote, chordNotes, noteDegrees)
    IN  IF targetNote = Null THEN Muted(string)
        ELSE LET fret == findFretOnString(string, targetNote, rootFret)
             IN  IF fret = -1 THEN Muted(string)
                 ELSE Position(string, fret, extractNoteName(noteAt(string, fret)))

\* variant: the builder gives up and returns null
buildChordFromRootNull(rootNote, chordNotes, rootPosition, chordName) == None

\* variant: no shape for a root position above the three lowest strings, the
\* builder returns null there
buildChordFromRootNullOffTemplate(rootNote, chordNotes, rootPosition, chordName) ==
    LET shape == chordShapeFor(rootPosition.string)
        build(noteDegrees) ==
            Tuple([i \in DOMAIN shape.strings |->
                      shapeEntry(shape.strings[i], shape.degrees[i], rootNote, chordNotes,
                                 noteDegrees, rootPosition.fret)])
        fill(fingering) ==
            IF Len(fingering) < 6 THEN Some(Tuple(createFullFingering(fingering)))
            ELSE Some(fingering)
    IN  IF rootPosition.string \notin {"6E", "5A", "4D"} THEN None
        ELSE Eval(fill, Eval(build, determineNoteDegrees(chordNotes, rootNote)))

\* Some(fingering); the source has no path on which it returns null
buildChordFromRoot(rootNote, chordNotes, rootPosition, chordName) ==
    LET shape == chordShapeFor(rootPosition.string)
        \* the adjustment for a non-major chord maps 3 to 3
        degrees == IF ~isMajor(chordName) /\ 3 \in Range(shape.degrees)
                   THEN [i \in DOMAIN shape.degrees |->
                            IF shape.degrees[i] = 3 THEN 3 ELSE shape.degrees[i]]
                   ELSE shape.degrees
        build(noteDegrees) ==
            Tuple([i \in DOMAIN shape.strings |->
                      shapeEntry(shape.strings[i], degrees[i], rootNote, chordNotes,
                                 noteDegrees, rootPosition.fret)])
        fill(fingering) ==
            IF Len(fingering) < 6 THEN Some(Tuple(createFullFingering(fingering)))
            ELSE Some(fingering)
    IN  Eval(fill, Eval(build, determineNoteDegrees(chordNotes, rootNote)))


(***************************************************************************)
(* Fallback generator and resolver                                         *)
(***************************************************************************)

\* variant: a position is taken even when its string is already used
RECURSIVE generateCombinationSharingStrings(_, _, _)
generateCombinationSharingStrings(currentCombination, remainingNotes, positionsByNote) ==
    IF remainingNotes = <<>>
    THEN << Tuple(createFullFingering(currentCombination)) >>
    ELSE LET try(positions) ==
                 Flatten([k \in DOMAIN positions |->
                     generateCombinationSharingStrings(Append(currentCombination, positions[k]),
                                                       Tail(remainingNotes), positionsByNote)])
         IN  Eval(try, Tuple(positionsByNote[Head(remainingNotes)]))

\* depth-first assignment of one position per remaining note, strings exclusive
RECURSIVE generateCombination(_, _, _)
generateCombination(currentCombination, remainingNotes, positionsByNote) ==
    IF remainingNotes = <<>>
    THEN << Tuple(createFullFingering(currentCombination)) >>
    ELSE LET try(positions) ==
                 Flatten([k \in DOMAIN positions |->
                     IF \E j \in DOMAIN currentCombination :
                            currentCombination[j].string = positions[k].string
                     THEN <<>>
                     ELSE generateCombination(Append(currentCombination, positions[k]),
                                              Tail(remainingNotes), positionsByNote)])
         IN  Eval(try, Tuple(positionsByNote[Head(remainingNotes)]))

\* variant: a note without any position is left out of the assignment
generateAllCombinationsSkippingAbsent(positionsByNote, chordNotes) ==
    generateCombination(<<>>,
                        SelectSeq(chordNotes, LAMBDA n : positionsByNote[n] # <<>>),
                        positionsByNote)

generateAllCombinations(positionsByNote, chordNotes) ==
    generateCombination(<<>>, chordNotes, positionsByNote)

\* Array.prototype.sort with comparator keys[a] - keys[b]: ascending and stable
StableSortByKey(seq, keys) ==
    LET ranksOf(k) ==
            Tuple([i \in DOMAIN seq |->
                      Cardinality({j \in DOMAIN seq : k[j] < k[i] \/ (k[j] = k[i] /\ j < i)}) + 1])
        place(ranks) == Tuple([r \in DOMAIN seq |-> seq[CHOOSE i \in DOMAIN seq : ranks[i] = r]])
    IN  Eval(place, Eval(ranksOf, Tuple(keys)))

\* Array.prototype.slice(0, n)
Slice(seq, n) == SubSeq(seq, 1, IF Len(seq) < n THEN Len(seq) ELSE n)

MaxFretRangeDefault   == 4
TopNDefault           == 3
ScoreThresholdDefault == -5
MaxCombinations       == 50
EvaluateAtMost        == 10

scored(fingering, chordName) ==
    [fingering        |-> fingering,
     score            |-> calculateScore(fingering, chordName),
     fretRange        |-> calculateFretRange(fingering),
     openStrings      |-> countOpenStrings(fingering),
     barreRequirement |-> calculateBarreRequirement(fingering),
     standardMatch    |-> calculateStandardChordMatch(fingering, chordName)]

\* variant: while a chord is displayed its lowest sounding position is reused
\* as the root position
rootPositionForStale(rootNote) ==
    IF currentFingering # None
    THEN LET f == currentFingering[1]
             low == f[Min({i \in DOMAIN f : f[i].fret >= 0})]
         IN  Some([note |-> rootNote, string |-> low.string, fret |-> low.fret])
    ELSE LET openStringRoot == findRootNoteOnOpenString(rootNote)
         IN  IF openStringRoot # None THEN openStringRoot ELSE findLowestRootNote(rootNote)

\* steps 1 and 2: the open-string root if there is one, else the lowest root
rootPositionFor(rootNote) ==
    LET openStringRoot == findRootNoteOnOpenString(rootNote)
    IN  IF openStringRoot # None THEN openStringRoot ELSE findLowestRootNote(rootNote)

\* variant: the first MaxCombinations candidates are kept as they were found
capCombinationsFirstFound(generated) == Slice(generated, MaxCombinations)

\* lines 646-655: of more than MaxCombinations candidates, the ones with the
\* narrowest fret range are kept
capCombinations(generated) ==
    IF Len(generated) > MaxCombinations
    THEN Slice(StableSortByKey(generated,
                               [i \in DOMAIN generated |-> calculateFretRange(generated[i])]),
               MaxCombinations)
    ELSE generated

\* lines 657-661: the candidates within the fret range limit
filterCombinations(kept) ==
    SelectSeq(kept, LAMBDA f : calculateFretRange(f) <= MaxFretRangeDefault)

\* lines 663-675: the candidates that are evaluated, each with its metrics
scoreCombinations(kept, valid, chordName) ==
    LET combinationsToEvaluate ==
            IF Len(valid) > 0 THEN valid ELSE Slice(kept, EvaluateAtMost)
    IN  Tuple([i \in DOMAIN combinationsToEvaluate |->
                  scored(combinationsToEvaluate[i], chordName)])

\* variant: the comparator is a.score - b.score
topCombinationsOfAscending(unsorted) ==
    Slice(StableSortByKey(unsorted, [i \in DOMAIN unsorted |-> unsorted[i].score]),
          TopNDefault)

\* lines 677-681: sorted with comparator b.score - a.score, the first TopNDefault
topCombinationsOf(unsorted) ==
    Slice(StableSortByKey(unsorted, [i \in DOMAIN unsorted |-> 0 - unsorted[i].score]),
          TopNDefault)

\* the locals of the simplified search, line 639 onwards: what was generated,
\* kept after the cut, found valid, scored, and selected
fallbackStages(chordNotes, chordName) ==
    LET selected(generated, kept, valid, scoredList) ==
            [generated  |-> generated,
             kept       |-> kept,
             valid      |-> valid,
             scoredList |-> scoredList,
             top        |-> Tuple(topCombinationsOf(scoredList))]
        score(generated, kept, valid) ==
            Eval(LAMBDA scoredList : selected(generated, kept, valid, scoredList),
                 Tuple(scoreCombinations(kept, valid, chordName)))
        filter(generated, kept) ==
            Eval(LAMBDA valid : score(generated, kept, valid), Tuple(filterCombinations(kept)))
        cut(generated) ==
            Eval(LAMBDA kept : filter(generated, kept), Tuple(capCombinations(generated)))
    IN  Eval(cut, Tuple(generateAllCombinations(findAllPossiblePositions(chordNotes),
                                                chordNotes)))

\* the result of the simplified search, lines 683-695
fallbackResultOf(stages, chordNotes, chordName) ==
    [chordName         |-> chordName,
     notes             |-> chordNotes,
     totalCombinations |-> Len(stages.kept),
     validCombinations |-> Len(stages.valid),
     hasGoodFingering  |-> /\ Len(stages.top) > 0
                           /\ stages.top[1].score >= ScoreThresholdDefault * ScoreScale,
     topFingerings     |-> stages.top,
     bestFingering     |-> IF Len(stages.top) > 0 THEN Some(stages.top[1]) ELSE None]

\* the simplified search that runs when no primary fingering was built
fallbackResult(chordNotes, chordName) ==
    Eval(LAMBDA stages : fallbackResultOf(stages, chordNotes, chordName),
         fallbackStages(chordNotes, chordName))

\* step 3 onwards, for a root position that was found
resultFromRoot(chordNotes, chordName, rootPosition) ==
    LET primaryResult(primaryScore) ==
            LET hasGoodFingering == primaryScore.score >= ScoreThresholdDefault * ScoreScale
            IN  [chordName         |-> chordName,
                 notes             |-> chordNotes,
                 totalCombinations |-> 1,
                 validCombinations |-> IF hasGoodFingering THEN 1 ELSE 0,
                 hasGoodFingering  |-> hasGoodFingering,
                 topFingerings     |-> <<primaryScore>>,
                 bestFingering     |-> Some(primaryScore)]
        fromPrimary(primaryFingering) ==
            IF primaryFingering # None
            THEN Eval(primaryResult, scored(primaryFingering[1], chordName))
            ELSE fallbackResult(chordNotes, chordName)
    IN  Eval(fromPrimary, buildChordFromRoot(chordNotes[1], chordNotes, rootPosition, chordName))

findOptimalFingering(chordNotes, chordName) ==
    LET fromRoot(rootPosition) ==
            IF rootPosition = None
            THEN [chordName         |-> chordName,
                  notes             |-> chordNotes,
                  totalCombinations |-> 0,
                  validCombinations |-> 0,
                  hasGoodFingering  |-> FALSE,
                  topFingerings     |-> <<>>,
                  bestFingering     |-> None]
            ELSE resultFromRoot(chordNotes, chordName, rootPosition[1])
    IN  Eval(fromRoot, rootPositionFor(chordNotes[1]))

\* the stage in which findOptimalFingering returns
RootNotFound   == "RootNotFound"
TemplateBuilt  == "TemplateBuilt"
FallbackScored == "FallbackScored"

resolutionPath(chordNotes, chordName) ==
    LET fromRoot(rootPosition) ==
            IF rootPosition = None THEN RootNotFound
            ELSE IF buildChordFromRoot(chordNotes[1], chordNotes, rootPosition[1], chordName) # None
            THEN TemplateBuilt
            ELSE FallbackScored
    IN  Eval(fromRoot, rootPositionFor(chordNotes[1]))


(***************************************************************************)
(* Audio mapper: fingering to sample files                                 *)
(***************************************************************************)

MAX_PITCH_SHIFT_SEMITONES == 2

\* the highest fret mapFingeringToSamples passes to findClosestFret
MaxSampleFret == 7

\* a sample file is absent, present and decodable, or present but not decodable
Absent  == "Absent"
Present == "Present"
Broken  == "Broken"

NoSamples == [p \in Strings \X (0..MaxSampleFret) |-> Absent]

\* the sample of a position, file samples/<string>/fret<fret>.mp3
sampleAt(string, fret) ==
    IF <<string, fret>> \in DOMAIN samples THEN samples[<<string, fret>>] ELSE Absent

\* fetch with method HEAD answers ok
checkFileExists(string, fret) == sampleAt(string, fret) # Absent

\* the decoded buffer, None when the fetch or the decoding fails
loadAudioFile(string, fret) ==
    IF sampleAt(string, fret) = Present THEN Some(<<string, fret>>) ELSE None

\* the first distance at which the fret above is at most maxFret or the fret
\* below is at least 0; no sample file is looked at
findClosestFret(string, targetFret, maxFret) ==
    LET hits == {d \in 0..maxFret : targetFret + d <= maxFret \/ targetFret - d >= 0}
    IN  IF hits = {} THEN None
        ELSE IF targetFret + Min(hits) <= maxFret THEN Some(targetFret + Min(hits))
        ELSE Some(targetFret - Min(hits))

Silent == "silent"

\* what the loop body leaves for one string: file, buffer, pitch shift entry
\* and, on an error, the error entry
Mapped(string, file, buffer, wasPitchShifted, semitones, error) ==
    [string |-> string, file |-> file, buffer |-> buffer,
     wasPitchShifted |-> wasPitchShifted, semitones |-> semitones, error |-> error]

MapError(string, fret, message) ==
    Mapped(string, Silent, Silent, FALSE, 0, Some([string |-> string, fret |-> fret, error |-> message]))

\* lines 207-347, one position of the fingering
mapPosition(position, enablePitchShift, maxPitchShiftSemitones) ==
    LET string == position.string
        fret == position.fret
        closestFret == findClosestFret(string, fret, MaxSampleFret)
    IN  IF fret = -1 THEN Mapped(string, Silent, Silent, FALSE, 0, None)
        ELSE IF checkFileExists(string, fret)
        THEN IF loadAudioFile(string, fret) # None
             THEN Mapped(string, <<string, fret>>, <<"sample", string, fret, 0>>, FALSE, 0, None)
             ELSE MapError(string, fret, "LoadFailed")
        ELSE IF ~enablePitchShift THEN MapError(string, fret, "PitchShiftDisabled")
        ELSE IF closestFret = None THEN MapError(string, fret, "NoClosestFret")
        ELSE IF ~checkFileExists(string, closestFret[1])
        THEN MapError(string, fret, "ClosestFileMissing")
        ELSE IF loadAudioFile(string, closestFret[1]) = None
        THEN MapError(string, fret, "LoadFailed")
        ELSE IF fret - closestFret[1] <= maxPitchShiftSemitones
                /\ closestFret[1] - fret <= maxPitchShiftSemitones
        THEN Mapped(string, <<string, closestFret[1]>>,
                    <<"sample", string, closestFret[1], fret - closestFret[1]>>,
                    TRUE, fret - closestFret[1], None)
        ELSE MapError(string, fret, "ShiftExceedsLimit")

\* the result: one entry per string in audioFiles, audioBuffers and
\* pitchShifted, the errors in the order they were met
mapFingeringToSamples(fingering, enablePitchShift) ==
    IF Len(fingering) # 6
    THEN [fingering |-> fingering, audioFiles |-> <<>>, audioBuffers |-> <<>>,
          pitchShifted |-> <<>>, errors |-> << [general |-> "NotSixStrings"] >>,
          success |-> FALSE]
    ELSE LET result(mapped) ==
                 [fingering    |-> fingering,
                  audioFiles   |-> [i \in DOMAIN mapped |-> mapped[i].file],
                  audioBuffers |-> [i \in DOMAIN mapped |-> mapped[i].buffer],
                  pitchShifted |-> [i \in DOMAIN mapped |->
                                       [string |-> mapped[i].string,
                                        wasPitchShifted |-> mapped[i].wasPitchShifted,
                                        semitones |-> mapped[i].semitones]],
                  errors       |-> LET failed == SelectSeq(mapped, LAMBDA m : m.error # None)
                                   IN  [i \in DOMAIN failed |-> failed[i].error[1]],
                  success      |-> Len(mapped) = 6]
         IN  Eval(result,
                  Tuple([i \in DOMAIN fingering |->
                            mapPosition(fingering[i], enablePitchShift,
                                        MAX_PITCH_SHIFT_SEMITONES)]))


(***************************************************************************)
(* Application: the chord input handler and the log                        *)
(***************************************************************************)

\* bound of the model: the handlers run only while the log has room
MaxLogEntries == 4

\* the log keeps the newest LogCap entries
LogCap == 100

LogEntry(type, message) == [type |-> type, message |-> message]

addLogEntry(log, entry) ==
    LET pushed == Append(log, entry)
    IN  IF Len(pushed) > LogCap THEN Tail(pushed) ELSE pushed

\* inputs of the model: a leading note token followed by a quality suffix
Leads ==
    { <<l>> \o a : l \in NoteLetters, a \in {<<>>, <<"#">>, <<"b">>} }
    \cup { <<"H">>, <<"c">>, <<>>, <<" ", "G">> }

Suffixes ==
    { CHORD_INTERVALS[i][1] : i \in DOMAIN CHORD_INTERVALS }
    \cup { <<"x", "y", "z">>, <<"m", "6">>, <<"9">>, <<" ", "m">>, <<"7", " ">> }

Symbols == { l \o q : l \in Leads, q \in Suffixes }

\* the symbols entered where one resolution follows another
AppSymbols ==
    { l \o q : l \in { <<"C">>, <<"E">>, <<"B", "b">>, <<"G">>, <<"C", "b">>, <<"H">> },
               q \in { <<>>, <<"m">>, <<"m", "a", "j", "7">>, <<"x", "y", "z">> } }

Idle        == "Idle"
ParseFailed == "ParseFailed"

\* a remembered resolution; between: another symbol was processed since,
\* again: the same symbol was processed again after that
Resolution(chordName, parsed, result) ==
    [chordName |-> chordName, parsed |-> parsed, result |-> result,
     between |-> FALSE, again |-> FALSE]

Remembered(chordName, parsed, result, remember) ==
    IF firstSeen = None
    THEN IF remember THEN Some(Resolution(chordName, parsed, result)) ELSE None
    ELSE IF chordName = firstSeen[1].chordName
    THEN Some([firstSeen[1] EXCEPT !.again = firstSeen[1].between])
    ELSE Some([firstSeen[1] EXCEPT !.between = TRUE])

\* nothing was handed to the fallback search, the mapper, the classifiers
FallbackOff ==
    /\ fallbackInput = None
    /\ possiblePositions = None
    /\ combinations = None
    /\ keptCombinations = None
    /\ scoredCombinations = None

MapOff ==
    /\ samples = NoSamples
    /\ mapInput = None
    /\ mapResult = None

DegreeOff ==
    /\ degreeInput = None
    /\ degreeResult = None

SilentPath == "silent"
CachePaths == {SilentPath, "samples/6E/fret0.mp3", "samples/5A/fret3.mp3"}

\* the module as it is loaded: lines 10-16
CacheEmpty ==
    /\ audioBufferCache = [p \in CachePaths |-> None]
    /\ pendingLoads = [p \in CachePaths |-> None]
    /\ loadsInFlight = {}
    /\ loadsStarted = 0
    /\ returned = None

\* the app script as it is loaded, lines 10-11: nothing plays, no Play click
\* is being handled, no timer is armed
PlayIdle ==
    /\ isPlaying = FALSE
    /\ playbackResult = None
    /\ playButtonDisabled = FALSE
    /\ calls = <<>>
    /\ timers = {}
    /\ now = 0

\* the application once initApp has run, with the given text in the input box
AppStart(input) ==
    /\ chordInput = input
    /\ NOTES_DATA = NotesDataTable
    /\ STRINGS_ORDER = StringsOrderTable
    /\ currentChord = None
    /\ currentFingering = None
    /\ parseResult = None
    /\ optimizeResult = None
    /\ anchor = None
    /\ path = Idle
    /\ logEntries = << LogEntry("info", "started"), LogEntry("info", "preload") >>
    /\ firstSeen = None

InitWith(input) == AppStart(input) /\ FallbackOff /\ MapOff /\ DegreeOff /\ CacheEmpty /\ PlayIdle

Init == InitWith(<<>>)

\* variant: the current fingering is not reset
clearChordInfoKeepingFingering ==
    /\ currentChord' = None
    /\ UNCHANGED currentFingering

\* the reset of the current chord that clearChordInfo does
clearChordInfo ==
    /\ currentChord' = None
    /\ currentFingering' = None

\* processChordInput on the input value sym; remember says whether a first
\* resolution is recorded in firstSeen
processChordInput(sym, remember) ==
    /\ chordInput' = sym
    /\ UNCHANGED <<NOTES_DATA, STRINGS_ORDER, fallbackInput, mapVars, degreeVars, cacheVars, playVars>>
    /\ \E chordName \in {Trim(sym)} :
        IF chordName = <<>>
        THEN /\ clearChordInfo
             /\ parseResult' = None
             /\ optimizeResult' = None
             /\ anchor' = None
             /\ possiblePositions' = None
             /\ combinations' = None /\ keptCombinations' = None /\ scoredCombinations' = None
             /\ path' = Idle
             /\ UNCHANGED <<logEntries, firstSeen>>
        ELSE
          /\ Len(logEntries) + 2 <= MaxLogEntries
          /\ \E requested \in {addLogEntry(logEntries, LogEntry("info", "request"))},
                parsed \in {parseChord(chordName)} :
              /\ parseResult' = Some(parsed)
              /\ IF ~parsed.ok
                 THEN \* parseChord threw: the handler logs the error and clears
                      /\ optimizeResult' = None
                      /\ anchor' = None
                      /\ possiblePositions' = None
                      /\ combinations' = None /\ keptCombinations' = None /\ scoredCombinations' = None
                      /\ path' = ParseFailed
                      /\ clearChordInfo
                      /\ logEntries' = addLogEntry(requested, LogEntry("error", parsed.error))
                      /\ firstSeen' = Remembered(chordName, parsed, None, remember)
                 ELSE \E result \in {findOptimalFingering(parsed.notes, chordName)} :
                      /\ optimizeResult' = Some(result)
                      /\ anchor' = rootPositionFor(parsed.notes[1])
                      /\ path' = resolutionPath(parsed.notes, chordName)
                      /\ IF path' = FallbackScored
                         THEN \E stages \in {fallbackStages(parsed.notes, chordName)} :
                                  /\ possiblePositions' =
                                         Some(findAllPossiblePositions(parsed.notes))
                                  /\ combinations' = Some(stages.generated)
                                  /\ keptCombinations' = Some(stages.kept)
                                  /\ scoredCombinations' = Some(stages.scoredList)
                         ELSE /\ possiblePositions' = None
                              /\ combinations' = None
                              /\ keptCombinations' = None
                              /\ scoredCombinations' = None
                      /\ IF result.bestFingering = None
                         THEN \* no fingering: the handler throws, logs and clears
                              /\ clearChordInfo
                              /\ logEntries' =
                                     addLogEntry(requested, LogEntry("error", "NoFingering"))
                         ELSE /\ currentChord' = Some(chordName)
                              /\ currentFingering' = Some(result.bestFingering[1].fingering)
                              /\ logEntries' =
                                     addLogEntry(requested, LogEntry("success", "processed"))
                      /\ firstSeen' = Remembered(chordName, parsed, Some(result), remember)

\* a symbol is entered and processed
ProcessChordInput ==
    \E sym \in AppSymbols, remember \in BOOLEAN : processChordInput(sym, remember)

handleClearLogClick ==
    /\ logEntries' = addLogEntry(<<>>, LogEntry("info", "cleared"))
    /\ UNCHANGED <<chordInput, NOTES_DATA, STRINGS_ORDER, currentChord, currentFingering,
                   parseResult, optimizeResult, anchor, fallbackInput, fallbackVars,
                   mapVars, degreeVars, cacheVars, playVars, path, firstSeen>>

Next == ProcessChordInput \/ handleClearLogClick

Spec == Init /\ [][Next]_vars

\* the resolver as a function of its input: any symbol is in the input box
\* and is processed once
InitResolve == \E sym \in Symbols : InitWith(sym)

ResolveInput == path = Idle /\ processChordInput(chordInput, FALSE)

SpecResolve == InitResolve /\ [][ResolveInput]_vars

\* the twelve note names of the chromatic scale as tokens, and the keys of
\* the interval table
CanonicalRoots == { <<"C">>, <<"C", "#">>, <<"D">>, <<"D", "#">>, <<"E">>, <<"F">>,
                    <<"F", "#">>, <<"G">>, <<"G", "#">>, <<"A">>, <<"A", "#">>, <<"B">> }

Qualities == { CHORD_INTERVALS[i][1] : i \in DOMAIN CHORD_INTERVALS }

\* the fallback search of findOptimalFingering as a function of the chord
\* notes and the chord name: the notes of every canonical root with every
\* quality, and note lists with a tone the lattice does not carry
OffLatticeInputs ==
    { [chordNotes |-> <<"C", "E", "H">>, chordName |-> <<"C">>],
      [chordNotes |-> <<"A", "Cb">>, chordName |-> <<"A", "m">>],
      [chordNotes |-> <<"G", "B", "D", "E#">>, chordName |-> <<"G", "7">>] }

FallbackInputs ==
    { [chordNotes |-> parseChord(r \o q).notes, chordName |-> r \o q] :
          r \in CanonicalRoots, q \in Qualities }
    \cup OffLatticeInputs

InitFallback ==
    /\ \E input \in FallbackInputs : fallbackInput = Some(input)
    /\ possiblePositions = None
    /\ combinations = None
    /\ keptCombinations = None
    /\ scoredCombinations = None
    /\ AppStart(<<>>) /\ MapOff /\ DegreeOff /\ CacheEmpty /\ PlayIdle

\* lines 637-696 of findOptimalFingering on the given notes
RunFallback ==
    /\ fallbackInput # None
    /\ path = Idle
    /\ \E input \in {fallbackInput[1]} :
          \E stages \in {fallbackStages(input.chordNotes, input.chordName)} :
              /\ possiblePositions' = Some(findAllPossiblePositions(input.chordNotes))
              /\ combinations' = Some(stages.generated)
              /\ keptCombinations' = Some(stages.kept)
              /\ scoredCombinations' = Some(stages.scoredList)
              /\ optimizeResult' =
                     Some(fallbackResultOf(stages, input.chordNotes, input.chordName))
    /\ path' = FallbackScored
    /\ UNCHANGED <<chordInput, NOTES_DATA, STRINGS_ORDER, currentChord, currentFingering,
                   parseResult, anchor, fallbackInput, mapVars, degreeVars, cacheVars, playVars,
                   logEntries, firstSeen>>

SpecFallback == InitFallback /\ [][RunFallback]_vars

\* mapFingeringToSamples as a function of the fingering, the option
\* enablePitchShift and the sample files on disk; the six strings have
\* samples for the same frets
MapFingerings ==
    { << Muted("6E"), Position("5A", 3, "C"), Position("4D", 5, "G"),
         Position("3G", 5, "C"), Position("2B", 5, "E"), Position("1e", 3, "G") >>,
      << Position("6E", 0, "E"), Position("5A", 2, "B"), Position("4D", 2, "E"),
         Position("3G", 0, "G"), Position("2B", 0, "B"), Position("1e", 0, "E") >>,
      << Position("6E", 7, "B"), Position("5A", 6, "D#"), Position("4D", 4, "F#"),
         Position("3G", 4, "B"), Position("2B", 4, "D#"), Position("1e", 2, "F#") >>,
      << Position("6E", 3, "G"), Position("5A", 2, "B") >> }

SampleSets ==
    { [p \in Strings \X (0..MaxSampleFret) |-> status[p[2]]] :
          status \in [0..MaxSampleFret -> {Absent, Present, Broken}] }

InitMap ==
    /\ samples \in SampleSets
    /\ \E fingering \in MapFingerings, enablePitchShift \in BOOLEAN :
          mapInput = Some([fingering |-> fingering, enablePitchShift |-> enablePitchShift])
    /\ mapResult = None
    /\ AppStart(<<>>) /\ FallbackOff /\ DegreeOff /\ CacheEmpty /\ PlayIdle

MapFingering ==
    /\ mapInput # None
    /\ mapResult = None
    /\ mapResult' = Some(mapFingeringToSamples(mapInput[1].fingering,
                                               mapInput[1].enablePitchShift))
    /\ UNCHANGED <<chordInput, NOTES_DATA, STRINGS_ORDER, currentChord, currentFingering,
                   parseResult, optimizeResult, anchor, fallbackInput, fallbackVars,
                   samples, mapInput, degreeVars, cacheVars, playVars, path, logEntries, firstSeen>>

SpecMap == InitMap /\ [][MapFingering]_vars

\* the two degree classifiers as functions of a root and a note: any two
\* names of the chromatic scale, and names that are not in it
DegreeNotes == Range(CHROMATIC_SCALE) \cup {"H", "Cb"}

InitDegrees ==
    /\ \E rootNote \in DegreeNotes, note \in DegreeNotes :
          degreeInput = Some([rootNote |-> rootNote, note |-> note])
    /\ degreeResult = None
    /\ AppStart(<<>>) /\ FallbackOff /\ MapOff /\ CacheEmpty /\ PlayIdle

\* both classifiers on the chord made of the root and the note
ClassifyDegree ==
    /\ degreeInput # None
    /\ degreeResult = None
    /\ \E rootNote \in {degreeInput[1].rootNote}, note \in {degreeInput[1].note} :
          degreeResult' =
              Some([determineNoteDegrees |->
                        determineNoteDegrees(<<rootNote, note>>, rootNote),
                    getNoteDegree |-> getNoteDegree(note, rootNote, <<rootNote, note>>)])
    /\ UNCHANGED <<chordInput, NOTES_DATA, STRINGS_ORDER, currentChord, currentFingering,
                   parseResult, optimizeResult, anchor, fallbackInput, fallbackVars,
                   mapVars, degreeInput, cacheVars, playVars,
                   path, logEntries, firstSeen>>

SpecDegrees == InitDegrees /\ [][ClassifyDegree]_vars

(***************************************************************************)
(* Audio buffer cache                                                      *)
(***************************************************************************)

\* the calls of loadAndCacheAudioBuffer and clearAudioBufferCache in any
\* order, every load that was started settling at any later time with
\* either outcome

\* loads started in one run
MaxLoads == 4

\* the buffer createBuffer gives, the buffer decoded by a load, and the
\* promise of a load
SilentBuffer == <<"silent", 0>>
BufferOf(id) == <<"decoded", id>>
PromiseOf(id) == <<"promise", id>>

\* a started load: the promise of the async block of lines 171-201
Load(id, filePath, forceReload, overlaps) ==
    [id |-> id, filePath |-> filePath, forceReload |-> forceReload, overlaps |-> overlaps]

InFlight(filePath) == {l \in loadsInFlight : l.filePath = filePath}

Returned(filePath, forceReload, how, value) ==
    Some([filePath |-> filePath, forceReload |-> forceReload, how |-> how, value |-> value])

loadAndCacheAudioBuffer(filePath, forceReload) ==
    IF filePath = SilentPath
    THEN IF ~forceReload /\ audioBufferCache[filePath] # None
         THEN /\ returned' = Returned(filePath, forceReload, "cached", audioBufferCache[filePath][1])
              /\ UNCHANGED <<audioBufferCache, pendingLoads, loadsInFlight, loadsStarted>>
         ELSE /\ audioBufferCache' = [audioBufferCache EXCEPT ![filePath] = Some(SilentBuffer)]
              /\ returned' = Returned(filePath, forceReload, "created", SilentBuffer)
              /\ UNCHANGED <<pendingLoads, loadsInFlight, loadsStarted>>
    ELSE IF ~forceReload /\ audioBufferCache[filePath] # None
    THEN /\ returned' = Returned(filePath, forceReload, "cached", audioBufferCache[filePath][1])
         /\ UNCHANGED <<audioBufferCache, pendingLoads, loadsInFlight, loadsStarted>>
    ELSE IF ~forceReload /\ pendingLoads[filePath] # None
    THEN /\ returned' = Returned(filePath, forceReload, "pending", pendingLoads[filePath][1])
         /\ UNCHANGED <<audioBufferCache, pendingLoads, loadsInFlight, loadsStarted>>
    ELSE \* the async block runs up to its first await, then line 204
         /\ loadsStarted < MaxLoads
         /\ loadsStarted' = loadsStarted + 1
         /\ loadsInFlight' = loadsInFlight \cup
                {Load(loadsStarted', filePath, forceReload, InFlight(filePath) # {})}
         /\ pendingLoads' = [pendingLoads EXCEPT ![filePath] = Some(PromiseOf(loadsStarted'))]
         /\ returned' = Returned(filePath, forceReload, "started", PromiseOf(loadsStarted'))
         /\ UNCHANGED audioBufferCache

\* the rest of the async block once the fetches have settled: the buffer of
\* the file or of an alternative file is cached, or the error is thrown, and
\* the finally clause runs
settleLoad(l, loaded) ==
    /\ audioBufferCache' = IF loaded
                           THEN [audioBufferCache EXCEPT ![l.filePath] = Some(BufferOf(l.id))]
                           ELSE audioBufferCache
    /\ pendingLoads' = [pendingLoads EXCEPT ![l.filePath] = None]
    /\ loadsInFlight' = loadsInFlight \ {l}
    /\ UNCHANGED <<loadsStarted, returned>>

\* filePaths is None for null, or a list of paths
clearAudioBufferCache(filePaths) ==
    /\ audioBufferCache' =
           IF filePaths # None
           THEN [p \in CachePaths |-> IF p \in Range(filePaths[1]) THEN None
                                      ELSE audioBufferCache[p]]
           ELSE [p \in CachePaths |-> None]
    /\ returned' = None
    /\ UNCHANGED <<pendingLoads, loadsInFlight, loadsStarted>>

InitCache == AppStart(<<>>) /\ FallbackOff /\ MapOff /\ DegreeOff /\ CacheEmpty /\ PlayIdle

CacheUnchanged ==
    UNCHANGED <<chordInput, NOTES_DATA, STRINGS_ORDER, currentChord, currentFingering,
                parseResult, optimizeResult, anchor, fallbackInput, fallbackVars,
                mapVars, degreeVars, playVars, path, logEntries, firstSeen>>

LoadAndCacheAudioBuffer ==
    /\ \E filePath \in CachePaths, forceReload \in BOOLEAN :
          loadAndCacheAudioBuffer(filePath, forceReload)
    /\ CacheUnchanged

SettleLoad ==
    /\ \E l \in loadsInFlight, loaded \in BOOLEAN : settleLoad(l, loaded)
    /\ CacheUnchanged

ClearAudioBufferCache ==
    /\ \E filePaths \in {None} \cup { Some(<<p>>) : p \in CachePaths } : clearAudioBufferCache(filePaths)
    /\ CacheUnchanged

NextCache == LoadAndCacheAudioBuffer \/ SettleLoad \/ ClearAudioBufferCache

SpecCache == InitCache /\ [][NextCache]_vars

(***************************************************************************)
(* Play and Stop buttons                                                   *)
(***************************************************************************)

\* time in seconds; the timeouts of 3000 ms and 5000 ms
AutoStopDelay == 3
CleanupDelay  == 5

\* calls of playChordWithFingering in one run, seconds of one run, and log
\* entries of one run
MaxPlays == 3
MaxTime == 6
MaxPlaybackLog == 13

\* a call of playChordWithFingering made by handlePlayButtonClick: awaited,
\* then failed or sounding from startedAt, then stopped at stoppedAt by the
\* Stop button ("user"), by the timer of handlePlayButtonClick ("autoStop")
\* or by the timer of playChord ("cleanup"), armed for the call stopper
Awaited == [state |-> "awaited", startedAt |-> -1, stoppedAt |-> -1,
            stoppedBy |-> "none", stopper |-> 0]

Failed(call) == [call EXCEPT !.state = "failed"]

Sounding(call, time) == [call EXCEPT !.state = "sounding", !.startedAt = time]

Stopped(call, time, by, armedFor) ==
    [call EXCEPT !.state = "stopped", !.stoppedAt = time, !.stoppedBy = by,
                 !.stopper = armedFor]

Timer(kind, id, due) == [kind |-> kind, id |-> id, due |-> due]

\* stopChord on the result of a call: the sources of a sounding playback are
\* stopped; a result without sources and sources already stopped are left
stopChord(id, by, armedFor) ==
    IF calls[id].state = "sounding"
    THEN [calls EXCEPT ![id] = Stopped(calls[id], now, by, armedFor)]
    ELSE calls

\* lines 529-549: the handler up to its await
handlePlayButtonClick ==
    /\ ~playButtonDisabled
    /\ Len(logEntries) < MaxPlaybackLog
    /\ IF currentChord = None \/ currentFingering = None
       THEN /\ logEntries' = addLogEntry(logEntries, LogEntry("error", "chooseChord"))
            /\ UNCHANGED calls
       ELSE IF isPlaying
       THEN /\ logEntries' = addLogEntry(logEntries, LogEntry("error", "alreadyPlaying"))
            /\ UNCHANGED calls
       ELSE /\ Len(calls) < MaxPlays
            /\ logEntries' = addLogEntry(logEntries, LogEntry("info", "playStart"))
            /\ calls' = Append(calls, Awaited)
    /\ UNCHANGED <<isPlaying, playbackResult, playButtonDisabled, timers, now>>

\* lines 549-585: playChordWithFingering settles and the handler goes on; a
\* playback that succeeded sounds, playChord has armed its cleanup timer and
\* the handler arms the auto-stop timer
resumePlayButtonClick(id, success) ==
    /\ calls[id].state = "awaited"
    /\ Len(logEntries) < MaxPlaybackLog
    /\ playbackResult' = Some([id |-> id, success |-> success])
    /\ IF success
       THEN /\ calls' = [calls EXCEPT ![id] = Sounding(calls[id], now)]
            /\ isPlaying' = TRUE
            /\ playButtonDisabled' = TRUE
            /\ logEntries' = addLogEntry(logEntries, LogEntry("success", "played"))
            /\ timers' = timers \cup {Timer("cleanup", id, now + CleanupDelay),
                                      Timer("autoStop", id, now + AutoStopDelay)}
       ELSE /\ calls' = [calls EXCEPT ![id] = Failed(calls[id])]
            /\ logEntries' = addLogEntry(logEntries, LogEntry("error", "playFailed"))
            /\ UNCHANGED <<isPlaying, playButtonDisabled, timers>>
    /\ UNCHANGED now

\* lines 591-623, called by the Stop button or by the auto-stop timer armed
\* for the call armedFor
handleStopButtonClick(by, armedFor) ==
    IF ~isPlaying
    THEN UNCHANGED <<isPlaying, playbackResult, playButtonDisabled, calls, logEntries>>
    ELSE /\ calls' = IF playbackResult # None /\ playbackResult[1].success
                     THEN stopChord(playbackResult[1].id, by, armedFor)
                     ELSE calls
         /\ isPlaying' = FALSE
         /\ playButtonDisabled' = FALSE
         /\ logEntries' = addLogEntry(logEntries, LogEntry("info", "stopped"))
         /\ UNCHANGED playbackResult

\* a timer fires when it is due, timers of one kind in the order they were
\* armed
Due(t) ==
    /\ t \in timers
    /\ t.due = now
    /\ \A u \in timers : (u.kind = t.kind /\ u.due = now) => u.id >= t.id

\* lines 573-577: the callback of the auto-stop timer
autoStopTimeout(t) ==
    /\ Due(t)
    /\ t.kind = "autoStop"
    /\ isPlaying => Len(logEntries) < MaxPlaybackLog
    /\ IF isPlaying
       THEN handleStopButtonClick("autoStop", t.id)
       ELSE UNCHANGED <<isPlaying, playbackResult, playButtonDisabled, calls, logEntries>>
    /\ timers' = timers \ {t}
    /\ UNCHANGED now

\* playChord, lines 98-101: the callback of the cleanup timer
cleanupTimeout(t) ==
    /\ Due(t)
    /\ t.kind = "cleanup"
    /\ calls' = stopChord(t.id, "cleanup", t.id)
    /\ timers' = timers \ {t}
    /\ UNCHANGED <<isPlaying, playbackResult, playButtonDisabled, logEntries, now>>

PlayUnchanged ==
    UNCHANGED <<chordInput, NOTES_DATA, STRINGS_ORDER, currentChord, currentFingering,
                parseResult, optimizeResult, anchor, fallbackInput, fallbackVars,
                mapVars, degreeVars, cacheVars, path, firstSeen>>

\* the chords shown before the Play button is used
PlaybackSymbols == { <<"E", "m">>, <<"C">> }

ShowChord == \E sym \in PlaybackSymbols : processChordInput(sym, FALSE)

PlayClick == handlePlayButtonClick /\ PlayUnchanged

PlaySettles ==
    /\ \E id \in DOMAIN calls, success \in BOOLEAN : resumePlayButtonClick(id, success)
    /\ PlayUnchanged

StopClick ==
    /\ Len(logEntries) < MaxPlaybackLog
    /\ handleStopButtonClick("user", 0)
    /\ UNCHANGED <<timers, now>>
    /\ PlayUnchanged

AutoStopTimeout == (\E t \in timers : autoStopTimeout(t)) /\ PlayUnchanged

CleanupTimeout == (\E t \in timers : cleanupTimeout(t)) /\ PlayUnchanged

\* a second passes once every timer that is due has fired
Tick ==
    /\ now < MaxTime
    /\ \A t \in timers : t.due > now
    /\ now' = now + 1
    /\ UNCHANGED <<isPlaying, playbackResult, playButtonDisabled, calls, timers, logEntries>>
    /\ PlayUnchanged

InitPlayback == InitWith(<<>>)

NextPlayback ==
    \/ ShowChord
    \/ PlayClick
    \/ PlaySettles
    \/ StopClick
    \/ AutoStopTimeout
    \/ CleanupTimeout
    \/ Tick

SpecPlayback == InitPlayback /\ [][NextPlayback]_vars

TypeOK ==
    /\ chordInput \in Symbols \cup AppSymbols \cup {<<>>}
    /\ path \in {Idle, ParseFailed, RootNotFound, TemplateBuilt, FallbackScored}
    /\ Len(logEntries) <= MaxLogEntries


(***************************************************************************)
(* Properties                                                              *)
(***************************************************************************)

\* the symbol the last processChordInput worked on
LastChord == Trim(chordInput)

\* the last processChordInput ran the parser / the resolver
Parsed   == parseResult # None
Resolved == optimizeResult # None

HasBest == Resolved /\ optimizeResult[1].bestFingering # None

BestFingering == optimizeResult[1].bestFingering[1].fingering

NonMuted(f) == {i \in DOMAIN f : f[i].fret >= 0}

\* the name of a note token given as characters
TokenName(l) == IF Len(l) = 1 THEN l[1] ELSE l[1] \o l[2]

Spellings == { <<l>> \o a : l \in NoteLetters, a \in {<<>>, <<"#">>, <<"b">>} }

Sym(str) ==
    CASE str = "Em"    -> <<"E", "m">>
      [] str = "C"     -> <<"C">>
      [] str = "Bbm"   -> <<"B", "b", "m">>
      [] str = "Cmaj7" -> <<"C", "m", "a", "j", "7">>

\* C1: every fingering returned for a symbol that parses (the best one and
\* each of the top ones) has six entries, in the order 6E 5A 4D 3G 2B 1e, and
\* a non-muted entry carries the note name the lattice holds at its string
\* and fret
WellFormed(f) ==
    /\ Len(f) = 6
    /\ \A i \in 1..6 :
        /\ f[i].string = StringsOrderTable[i]
        /\ f[i].fret >= 0 =>
              /\ f[i].fret <= 7
              /\ f[i].note = NotesDataTable[f[i].string][f[i].fret + 1][1]

C1_SixEntriesWithLatticeNotes ==
    Resolved =>
        /\ \A k \in DOMAIN optimizeResult[1].topFingerings :
              WellFormed(optimizeResult[1].topFingerings[k].fingering)
        /\ HasBest => WellFormed(BestFingering)

C1_Witness ==
    /\ HasBest
    /\ \E i, j \in 1..6 : BestFingering[i].fret = -1 /\ BestFingering[j].fret > 0

\* C2: the static tables never change, and a symbol resolved again gives the
\* note list, the fingering and the metrics its first resolution gave
C2_SameSymbolSameResult ==
    /\ NOTES_DATA = NotesDataTable
    /\ STRINGS_ORDER = StringsOrderTable
    /\ (firstSeen # None /\ Parsed /\ LastChord = firstSeen[1].chordName) =>
          /\ parseResult[1] = firstSeen[1].parsed
          /\ optimizeResult = firstSeen[1].result

C2_Witness ==
    /\ firstSeen # None
    /\ firstSeen[1].between /\ firstSeen[1].again
    /\ LastChord = firstSeen[1].chordName
    /\ HasBest

\* C3: a symbol whose leading note token does not parse fails with the
\* format error, a symbol with a note token and a suffix outside the interval
\* table fails with the distinct unsupported-type error; either way no notes
\* are returned, the resolver is not run and no current fingering is kept
UnparsableLeads == { <<"H">>, <<"c">> }

UnsupportedSuffixes == { <<"x", "y", "z">>, <<"m", "6">>, <<"9">> }

FailedWith(kind) ==
    /\ ~parseResult[1].ok
    /\ parseResult[1].error = kind
    /\ parseResult[1].notes = <<>>
    /\ ~Resolved
    /\ currentFingering = None
    /\ currentChord = None

C3_ParseErrorsAreReported ==
    /\ InvalidFormat # UnsupportedType
    /\ Parsed =>
          /\ \A l \in UnparsableLeads, q \in Suffixes :
                chordInput = l \o q => FailedWith(InvalidFormat)
          /\ \A l \in Spellings, q \in UnsupportedSuffixes :
                chordInput = l \o q => FailedWith(UnsupportedType)

C3_Witness ==
    /\ Parsed
    /\ chordInput = <<"H", "m">>
    /\ firstSeen # None
    /\ firstSeen[1].result # None
    /\ firstSeen[1].result[1].bestFingering # None

\* C4: for a canonical root and a quality of the interval table the note list
\* starts with the root, its notes are pairwise distinct, and there are three
\* of them for triads and sus chords, four for sevenths, add9 and sixths
ThreeToneQualities ==
    { <<"m", "a", "j">>, <<>>, <<"m">>, <<"m", "i", "n">>, <<"-">>, <<"d", "i", "m">>,
      <<"<U+00B0>">>, <<"a", "u", "g">>, <<"+">>, <<"s", "u", "s", "2">>,
      <<"s", "u", "s", "4">>, <<"s", "u", "s">> }

ToneCount(q) == IF q \in ThreeToneQualities THEN 3 ELSE 4

C4_RootFirstDistinctTones ==
    Parsed =>
        \A r \in CanonicalRoots, q \in Qualities :
            chordInput = r \o q =>
                LET notes == parseResult[1].notes
                IN  /\ parseResult[1].ok
                    /\ Len(notes) = ToneCount(q)
                    /\ notes[1] = TokenName(r)
                    /\ \A i, j \in DOMAIN notes : i # j => notes[i] # notes[j]
                    /\ Range(notes) \subseteq Range(CHROMATIC_SCALE)

C4_Witness ==
    /\ Parsed
    /\ chordInput = <<"A", "#", "a", "d", "d", "9">>
    /\ parseResult[1].ok

\* C5 (as claimed): each of the 21 spellings, with any supported quality,
\* parses, and its notes are those of the pitch class the spelling names
LetterPitch(l) ==
    CASE l = "C" -> 0 [] l = "D" -> 2 [] l = "E" -> 4 [] l = "F" -> 5
      [] l = "G" -> 7 [] l = "A" -> 9 [] l = "B" -> 11

SpelledPitch(l) ==
    (LetterPitch(l[1]) + (IF Len(l) = 1 THEN 0 ELSE IF l[2] = "#" THEN 1 ELSE 11)) % 12

C5_EverySpellingParses ==
    Parsed =>
        \A l \in Spellings, q \in Qualities :
            chordInput = l \o q =>
                /\ parseResult[1].ok
                /\ \A i \in DOMAIN parseResult[1].notes :
                      parseResult[1].notes[i] =
                          CHROMATIC_SCALE[((SpelledPitch(l) + intervalsOf(q)[i]) % 12) + 1]

\* C6: "Em" resolves to a fingering with no muted string whose lowest string
\* is open and sounds E
C6_EmAllStringsOpenRoot ==
    (chordInput = Sym("Em") /\ Parsed) =>
        /\ HasBest
        /\ NonMuted(BestFingering) = 1..6
        /\ BestFingering[1].string = "6E"
        /\ BestFingering[1].fret = 0
        /\ BestFingering[1].note = "E"

C6_Witness == chordInput = Sym("Em") /\ HasBest /\ path = TemplateBuilt

\* C7: "C" resolves to a fingering with 6E muted, the other five strings
\* sounding, and the lowest sounding string sounding C
C7_CLowStringMutedRootLowest ==
    (chordInput = Sym("C") /\ Parsed) =>
        /\ HasBest
        /\ NonMuted(BestFingering) = 2..6
        /\ BestFingering[1].string = "6E"
        /\ BestFingering[Min(NonMuted(BestFingering))].note = "C"

C7_Witness == chordInput = Sym("C") /\ HasBest /\ BestFingering[1].fret = -1

\* C8 (as claimed): "Bbm" does not end in the template path, its result
\* comes from the fallback generator
C8_BbmEndsInFallback ==
    (chordInput = Sym("Bbm") /\ Parsed) => path = FallbackScored

\* C8 (amended): "Bbm" ends in the template path: the builder yields a
\* fingering for the anchor, and it is returned as the only candidate
C8_BbmEndsInTemplate ==
    (chordInput = Sym("Bbm") /\ Parsed) =>
        /\ path = TemplateBuilt
        /\ HasBest
        /\ optimizeResult[1].totalCombinations = 1
        /\ Len(optimizeResult[1].topFingerings) = 1

C8_Witness ==
    /\ chordInput = Sym("Bbm")
    /\ HasBest
    /\ BestFingering[1].note = "A#"

\* C9 (as claimed): the fingering of "Cmaj7" has at most four sounding strings
C9_Cmaj7AtMostFourStrings ==
    (chordInput = Sym("Cmaj7") /\ Parsed) =>
        HasBest /\ Cardinality(NonMuted(BestFingering)) <= 4

\* C9 (amended): the fingering of "Cmaj7" has at most five sounding strings
C9_Cmaj7AtMostFiveStrings ==
    (chordInput = Sym("Cmaj7") /\ Parsed) =>
        HasBest /\ Cardinality(NonMuted(BestFingering)) <= 5

C9_Witness ==
    /\ chordInput = Sym("Cmaj7")
    /\ HasBest
    /\ parseResult[1].notes = <<"C", "E", "G", "B">>

\* the strings of the template chosen for an anchor string
TemplateStrings(anchorString) ==
    CASE anchorString = "6E" -> {"6E", "5A", "4D", "3G", "2B", "1e"}
      [] anchorString = "5A" -> {"5A", "4D", "3G", "2B", "1e"}
      [] anchorString = "4D" -> {"4D", "3G", "2B", "1e"}
      [] OTHER               -> {"6E", "5A", "4D", "3G", "2B", "1e"}

AnchorString == rootPositionFor(parseResult[1].notes[1])[1].string

\* C10 (as claimed): in a fingering of the template builder a string sounds
\* exactly if the template of the anchor string names it
C10_SoundingIffInTemplate ==
    (HasBest /\ path = TemplateBuilt) =>
        \A i \in 1..6 :
            BestFingering[i].fret >= 0 <=> BestFingering[i].string \in TemplateStrings(AnchorString)

\* C10 (amended): in a fingering of the template builder a string sounds
\* only if the template of the anchor string names it: the strings outside
\* the template are muted, a string of the template may be muted too
C10_SoundingOnlyInTemplate ==
    (HasBest /\ path = TemplateBuilt) =>
        \A i \in 1..6 :
            BestFingering[i].fret >= 0 => BestFingering[i].string \in TemplateStrings(AnchorString)

C10_Witness ==
    /\ HasBest
    /\ path = TemplateBuilt
    /\ AnchorString = "4D"
    /\ BestFingering[1].fret = -1 /\ BestFingering[2].fret = -1
    /\ BestFingering[6].fret = -1

\* the last symbol parsed and its root is the given note
RootIs(notes) == Parsed /\ parseResult[1].ok /\ parseResult[1].notes[1] \in notes

LowStrings == {"6E", "5A", "4D"}

\* C11 (as claimed): with an anchor above the three lowest strings the
\* builder gives nothing and the result comes from the fallback generator
C11_OffTemplateAnchorFallsBack ==
    (Resolved /\ anchor # None /\ anchor[1].string \notin LowStrings) =>
        path = FallbackScored

\* C11 (amended): the roots G and B anchor on the open strings 3G and 2B; the
\* builder then uses its general six-string shape (degrees 1 3 5 1 3 5), so
\* 6E and 3G sound the root, and the resolver returns that fingering from the
\* template path as its only candidate
C11_OffTemplateAnchorUsesGeneralShape ==
    (Resolved /\ RootIs({"G", "B"})) =>
        /\ anchor # None
        /\ anchor[1].string = (IF parseResult[1].notes[1] = "G" THEN "3G" ELSE "2B")
        /\ anchor[1].fret = 0
        /\ path = TemplateBuilt
        /\ HasBest
        /\ optimizeResult[1].totalCombinations = 1
        /\ Len(optimizeResult[1].topFingerings) = 1
        /\ BestFingering[1].fret >= 0 /\ BestFingering[1].note = parseResult[1].notes[1]
        /\ BestFingering[4].fret >= 0 /\ BestFingering[4].note = parseResult[1].notes[1]

C11_Witness ==
    /\ chordInput = <<"B", "m">>
    /\ HasBest
    /\ anchor # None
    /\ anchor[1].string = "2B"

\* the root position is the record findRootNoteOnOpenString builds: only that
\* one carries the fields midi and octave
FromOpenStringSearch(rootPosition) == {"midi", "octave"} \subseteq DOMAIN rootPosition

OpenStringRoots == {"E", "A", "D", "G", "B"}

\* C12: for a root that some open string carries, the anchor is at fret 0 of
\* the first string (from 6E up) whose open note is the root, and it is the
\* result of the open-string search, not of the search for the lowest root
C12_OpenStringRootAnchorsAtFretZero ==
    (Resolved /\ RootIs(OpenStringRoots)) =>
        /\ anchor # None
        /\ anchor[1].fret = 0
        /\ anchor[1].note = parseResult[1].notes[1]
        /\ NotesDataTable[anchor[1].string][1][1] = parseResult[1].notes[1]
        /\ \A i \in 1..6 :
              (StringsOrderTable[i] = anchor[1].string) =>
                  \A j \in 1..(i - 1) :
                      NotesDataTable[StringsOrderTable[j]][1][1] # parseResult[1].notes[1]
        /\ FromOpenStringSearch(anchor[1])

C12_Witness ==
    /\ chordInput = <<"G", "7">>
    /\ HasBest
    /\ anchor # None
    /\ anchor[1].string = "3G"
    /\ anchor[1].fret = 0

\* pitch of a lattice entry as its octave label gives it, and the place of a
\* position in the scan of the lattice (strings from 6E up, frets ascending)
LabelPitch(string, fret) ==
    12 * NotesDataTable[string][fret + 1][2]
        + IndexOf(CHROMATIC_SCALE, NotesDataTable[string][fret + 1][1])

ScanIndex(string, fret) == 8 * IndexOf(StringsOrderTable, string) + fret

Occurrences(note) ==
    { p \in Strings \X (0..7) : NotesDataTable[p[1]][p[2] + 1][1] = note }

InLowWindow(p) == p[1] \in LowStrings /\ p[2] <= 4

FrettedRoots == Range(CHROMATIC_SCALE) \ OpenStringRoots

\* C13 (as claimed): a root without an open-string occurrence that occurs
\* on 6E, 5A or 4D at a fret up to 4 is anchored on the lowest-pitch
\* occurrence of that window
C13_AnchorInsideLowWindow ==
    (Resolved /\ RootIs(FrettedRoots)) =>
        LET window == { p \in Occurrences(parseResult[1].notes[1]) : InLowWindow(p) }
        IN  window # {} =>
                /\ anchor # None
                /\ <<anchor[1].string, anchor[1].fret>> \in window
                /\ \A p \in window :
                      LabelPitch(anchor[1].string, anchor[1].fret) <= LabelPitch(p[1], p[2])

\* C13 (amended): a root without an open-string occurrence is anchored on
\* its occurrence of lowest labelled pitch in the whole lattice, the first
\* such in scan order; no window of strings or frets takes part
C13_AnchorIsFirstLowestOfLattice ==
    (Resolved /\ RootIs(FrettedRoots)) =>
        /\ anchor # None
        /\ ~FromOpenStringSearch(anchor[1])
        /\ <<anchor[1].string, anchor[1].fret>> \in Occurrences(parseResult[1].notes[1])
        /\ \A p \in Occurrences(parseResult[1].notes[1]) :
              \/ LabelPitch(anchor[1].string, anchor[1].fret) < LabelPitch(p[1], p[2])
              \/ /\ LabelPitch(anchor[1].string, anchor[1].fret) = LabelPitch(p[1], p[2])
                 /\ ScanIndex(anchor[1].string, anchor[1].fret) <= ScanIndex(p[1], p[2])

C13_Witness ==
    /\ chordInput = <<"A", "#">>
    /\ HasBest
    /\ anchor # None
    /\ anchor[1].string = "6E"
    /\ anchor[1].fret = 6
    /\ LabelPitch("5A", 1) = LabelPitch("6E", 6)

\* the fallback search ran on the notes of fallbackInput
FallbackRan == fallbackInput # None /\ path = FallbackScored

FallbackNotes == fallbackInput[1].chordNotes

OnLattice(note) == Occurrences(note) # {}

\* C14: when a chord tone has no occurrence on the lattice, the fallback
\* search generates no candidate and returns the empty result: no best
\* fingering, no top fingerings, not good, zero combinations
C14_NoCandidateGivesEmptyResult ==
    (FallbackRan /\ \E i \in DOMAIN FallbackNotes : ~OnLattice(FallbackNotes[i])) =>
        /\ combinations = Some(<<>>)
        /\ optimizeResult # None
        /\ optimizeResult[1].bestFingering = None
        /\ optimizeResult[1].topFingerings = <<>>
        /\ optimizeResult[1].hasGoodFingering = FALSE
        /\ optimizeResult[1].totalCombinations = 0
        /\ optimizeResult[1].validCombinations = 0

C14_Witness ==
    /\ FallbackRan
    /\ FallbackNotes = <<"G", "B", "D", "E#">>
    /\ combinations = Some(<<>>)
    /\ optimizeResult # None

\* C15: the fallback search returns its candidates by non-increasing score:
\* the best fingering is the first of the top fingerings, no scored candidate
\* has a higher score, every top fingering is a scored candidate, and besides
\* the best at most TopNDefault more are returned
C15_TopFingeringsByDescendingScore ==
    (FallbackRan /\ optimizeResult # None /\ scoredCombinations # None) =>
        LET top == optimizeResult[1].topFingerings
        IN  /\ \A i, j \in DOMAIN top : i < j => top[i].score >= top[j].score
            /\ \A i \in DOMAIN top : top[i] \in Range(scoredCombinations[1])
            /\ Len(top) - 1 <= TopNDefault
            /\ scoredCombinations[1] # <<>> =>
                  /\ top # <<>>
                  /\ optimizeResult[1].bestFingering = Some(top[1])
                  /\ \A k \in DOMAIN scoredCombinations[1] :
                        scoredCombinations[1][k].score <= top[1].score

C15_Witness ==
    /\ FallbackRan
    /\ optimizeResult # None
    /\ scoredCombinations # None
    /\ Len(optimizeResult[1].topFingerings) = TopNDefault
    /\ \E k \in DOMAIN scoredCombinations[1] :
          scoredCombinations[1][k].score < optimizeResult[1].topFingerings[TopNDefault].score
    /\ optimizeResult[1].topFingerings[1].score
           > optimizeResult[1].topFingerings[TopNDefault].score

\* the entry of string i in the result of mapFingeringToSamples
MapRan == mapInput # None /\ mapResult # None

MapPosition(i) == mapInput[1].fingering[i]

\* the frets of a string, other than the target, within the shift bound that
\* have a decodable sample
NeighbourSamples(string, fret) ==
    { g \in 0..MaxSampleFret :
          /\ g # fret
          /\ g - fret <= MAX_PITCH_SHIFT_SEMITONES /\ fret - g <= MAX_PITCH_SHIFT_SEMITONES
          /\ samples[<<string, g>>] = Present }

HasErrorFor(string) ==
    \E k \in DOMAIN mapResult[1].errors :
        "string" \in DOMAIN mapResult[1].errors[k] /\ mapResult[1].errors[k].string = string

\* C16 (as claimed): with pitch shifting enabled, a sounding string whose own
\* sample is absent is mapped to a sample of a neighbouring fret within two
\* semitones, shifted by the fret difference, whenever there is one; it is
\* silent with an error entry only when there is none
C16_AbsentSampleUsesNeighbour ==
    (MapRan /\ mapInput[1].enablePitchShift /\ Len(mapInput[1].fingering) = 6) =>
        \A i \in 1..6 :
            (MapPosition(i).fret >= 0
                /\ samples[<<MapPosition(i).string, MapPosition(i).fret>>] = Absent) =>
                LET near == NeighbourSamples(MapPosition(i).string, MapPosition(i).fret)
                    shift == mapResult[1].pitchShifted[i]
                IN  IF near # {}
                    THEN /\ shift.wasPitchShifted
                         /\ (MapPosition(i).fret - shift.semitones) \in near
                         /\ mapResult[1].audioFiles[i] =
                                <<MapPosition(i).string, MapPosition(i).fret - shift.semitones>>
                         /\ ~HasErrorFor(MapPosition(i).string)
                    ELSE /\ mapResult[1].audioFiles[i] = Silent
                         /\ HasErrorFor(MapPosition(i).string)

\* the degree the template of an anchor string gives a string
TemplateDegree(anchorString, string) ==
    LET degrees == CASE anchorString = "6E" -> <<1, 5, 1, 3, 5, 1>>
                     [] anchorString = "5A" -> <<0, 1, 5, 1, 3, 5>>
                     [] anchorString = "4D" -> <<0, 0, 1, 5, 1, 3>>
                     [] OTHER               -> <<1, 3, 5, 1, 3, 5>>
    IN  degrees[CHOOSE i \in 1..6 : StringsOrderTable[i] = string]

\* the tone the template asks for on string i, Null when the chord has no
\* tone of that degree
TargetOn(i) ==
    targetNoteFor(TemplateDegree(anchor[1].string, StringsOrderTable[i]),
                  parseResult[1].notes[1], parseResult[1].notes,
                  determineNoteDegrees(parseResult[1].notes, parseResult[1].notes[1]))

Carries(string, fret, note) == NotesDataTable[string][fret + 1][1] = note

\* fret 0 if the open string carries the note, else the lowest fret of
\* [rootFret - 2, rootFret + 2] within 1..7 that carries it, else the lowest
\* fret of 1..7 that carries it, else -1
ExpectedFret(string, note, rootFret) ==
    LET near == {f \in 1..7 : f >= rootFret - 2 /\ f <= rootFret + 2 /\ Carries(string, f, note)}
        all  == {f \in 1..7 : Carries(string, f, note)}
    IN  IF Carries(string, 0, note) THEN 0
        ELSE IF near # {} THEN Min(near)
        ELSE IF all # {} THEN Min(all)
        ELSE -1

\* C17: on every string of the template whose degree has a tone in the chord
\* the builder takes the open string if it carries the tone, else the lowest
\* fret near the anchor fret, else the lowest fret of 1..7, and mutes the
\* string only if none of its frets 0..7 carries the tone
C17_FretChosenOpenNearAnywhere ==
    (HasBest /\ path = TemplateBuilt /\ anchor # None) =>
        \A i \in 1..6 :
            (StringsOrderTable[i] \in TemplateStrings(anchor[1].string) /\ TargetOn(i) # Null) =>
                /\ BestFingering[i].fret =
                       ExpectedFret(StringsOrderTable[i], TargetOn(i), anchor[1].fret)
                /\ BestFingering[i].fret = -1 <=>
                       \A f \in 0..7 : ~Carries(StringsOrderTable[i], f, TargetOn(i))
                /\ BestFingering[i].fret >= 0 => BestFingering[i].note = TargetOn(i)

\* B: the anchor is the open 2B and the root on 6E is at fret 7, outside the
\* frets near the anchor
C17_Witness ==
    /\ chordInput = <<"B">>
    /\ HasBest
    /\ path = TemplateBuilt
    /\ anchor # None /\ anchor[1].fret = 0
    /\ BestFingering[1].fret = 7
    /\ BestFingering[1].note = "B"

\* the semitone distance of the classified note from the root
DegreesRan == degreeInput # None /\ degreeResult # None

InScale(note) == note \in Range(CHROMATIC_SCALE)

PitchOf(note) == CHOOSE k \in 0..11 : CHROMATIC_SCALE[k + 1] = note

Distance == (PitchOf(degreeInput[1].note) - PitchOf(degreeInput[1].rootNote) + 12) % 12

TableDegree(distance) ==
    CASE distance = 0  -> 1
      [] distance = 3  -> 3
      [] distance = 4  -> 3
      [] distance = 7  -> 5
      [] distance = 8  -> 5
      [] distance = 10 -> 7
      [] distance = 11 -> 7
      [] OTHER         -> Unclassified

\* C18 (as claimed): for every root and tone of the scale both classifiers
\* give 0->1, 3->3, 4->3, 7->5, 8->5, 10->7, 11->7 and -1 for any other
\* distance
C18_BothClassifiersUseTheTable ==
    (DegreesRan /\ InScale(degreeInput[1].rootNote) /\ InScale(degreeInput[1].note)) =>
        /\ degreeResult[1].determineNoteDegrees[degreeInput[1].note] = TableDegree(Distance)
        /\ degreeResult[1].getNoteDegree = TableDegree(Distance)

\* the fret range of a fingering: highest minus lowest fret of its sounding
\* strings, open strings included
RangeOf(f) ==
    LET frets == { f[i].fret : i \in NonMuted(f) }
    IN  IF frets = {} THEN 0 ELSE Max(frets) - Min(frets)

RECURSIVE SumOfCounts(_)
SumOfCounts(S) ==
    IF S = {} THEN 0
    ELSE LET x == CHOOSE y \in S : TRUE IN x[2] + SumOfCounts(S \ {x})

\* the number of ways to give each note one of its lattice occurrences, no
\* two notes on the same string
RECURSIVE CountChoices(_, _)
CountChoices(notes, used) ==
    IF notes = <<>> THEN 1
    ELSE SumOfCounts({ <<p, CountChoices(Tail(notes), used \cup {p[1]})>> :
                          p \in {q \in Occurrences(Head(notes)) : q[1] \notin used} })

\* C19 (as claimed): generation stops at MaxCombinations candidates, and
\* the candidates kept are the first found
C19_GenerationStopsAtCap ==
    (FallbackRan /\ combinations # None /\ keptCombinations # None) =>
        /\ Len(combinations[1]) <= MaxCombinations
        /\ keptCombinations[1] = Slice(combinations[1], MaxCombinations)

\* C19 (amended): generation is exhaustive, one candidate per way of placing
\* the notes on distinct strings; when more than MaxCombinations were
\* generated, the MaxCombinations of narrowest fret range are kept, in order
\* of fret range, and only those are counted in the result
C19_AllGeneratedNarrowestKept ==
    (FallbackRan /\ combinations # None /\ keptCombinations # None) =>
        LET generated == combinations[1]
            kept == keptCombinations[1]
        IN  /\ Len(generated) = CountChoices(FallbackNotes, {})
            /\ optimizeResult[1].totalCombinations = Len(kept)
            /\ Len(generated) <= MaxCombinations => kept = generated
            /\ Len(generated) > MaxCombinations =>
                  /\ Len(kept) = MaxCombinations
                  /\ Range(kept) \subseteq Range(generated)
                  /\ \A i, j \in DOMAIN kept : i < j => RangeOf(kept[i]) <= RangeOf(kept[j])
                  /\ \A k \in DOMAIN generated :
                        generated[k] \notin Range(kept) =>
                            RangeOf(generated[k]) >= RangeOf(kept[MaxCombinations])

C19_Witness ==
    /\ FallbackRan
    /\ combinations # None /\ keptCombinations # None
    /\ FallbackNotes = <<"C", "E", "G", "B">>
    /\ Len(combinations[1]) > MaxCombinations
    /\ Len(keptCombinations[1]) = MaxCombinations
    /\ keptCombinations[1] # Slice(combinations[1], MaxCombinations)

\* C20: every candidate of generateAllCombinations for n distinct tones is a
\* six-entry fingering in string order in which each tone sounds on exactly
\* one string, at a lattice occurrence of that tone, and the other 6 - n
\* strings are muted with fret -1 and no note
IsAssignment(candidate, notes) ==
    /\ Len(candidate) = 6
    /\ \A i \in 1..6 : candidate[i].string = StringsOrderTable[i]
    /\ Cardinality(NonMuted(candidate)) = Len(notes)
    /\ \A k \in DOMAIN notes :
          Cardinality({i \in NonMuted(candidate) : candidate[i].note = notes[k]}) = 1
    /\ \A i \in 1..6 :
          IF candidate[i].fret >= 0
          THEN /\ candidate[i].fret <= 7
               /\ candidate[i].note \in Range(notes)
               /\ Carries(candidate[i].string, candidate[i].fret, candidate[i].note)
          ELSE candidate[i].fret = -1 /\ candidate[i].note = Null

DistinctTones(notes) == \A i, j \in DOMAIN notes : i # j => notes[i] # notes[j]

C20_CandidatesAreExclusiveAssignments ==
    (FallbackRan /\ combinations # None /\ DistinctTones(FallbackNotes)) =>
        \A k \in DOMAIN combinations[1] : IsAssignment(combinations[1][k], FallbackNotes)

C20_Witness ==
    /\ FallbackRan
    /\ combinations # None
    /\ FallbackNotes = <<"D", "F", "A", "C">>
    /\ Len(combinations[1]) > 1
    /\ \E k \in DOMAIN combinations[1] :
          /\ combinations[1][k][1].fret = -1
          /\ combinations[1][k][6].fret = -1

\* the span of the fretted strings of a fingering: highest minus lowest fret
\* of the strings with fret >= 1, 0 when there is none
FrettedSpan(f) ==
    LET frets == { f[i].fret : i \in {k \in DOMAIN f : f[k].fret >= 1} }
    IN  IF frets = {} THEN 0 ELSE Max(frets) - Min(frets)

\* the score a scored candidate has when its fret range term is span
ScoreWithRange(s, span) ==
      WeightFretRange * span
    + WeightOpenStrings * s.openStrings
    + WeightBarreChords * s.barreRequirement
    + (WeightStandardChords * s.standardMatch) \div ScoreScale

ScoredRan == FallbackRan /\ scoredCombinations # None

\* C21 (as claimed): the fret span used in scoring a six-entry fingering is
\* the highest minus the lowest fret of the strings that are neither muted
\* nor open, 0 when there is none; open strings do not widen it
C21_SpanOverFrettedStrings ==
    ScoredRan =>
        \A k \in DOMAIN scoredCombinations[1] :
            LET s == scoredCombinations[1][k]
            IN  /\ s.fretRange = FrettedSpan(s.fingering)
                /\ s.score = ScoreWithRange(s, FrettedSpan(s.fingering))

\* C21 (amended): the fret span used in scoring a six-entry fingering is the
\* highest minus the lowest fret of its non-muted strings, open strings
\* (fret 0) included, and 0 when every string is muted
C21_SpanOverSoundingStrings ==
    ScoredRan =>
        \A k \in DOMAIN scoredCombinations[1] :
            LET s == scoredCombinations[1][k]
            IN  /\ Len(s.fingering) = 6
                /\ s.fretRange = RangeOf(s.fingering)
                /\ s.score = ScoreWithRange(s, RangeOf(s.fingering))

\* a scored candidate with an open string that widens the span: its fretted
\* strings span less than the range it is scored with
C21_Witness ==
    /\ ScoredRan
    /\ \E k \in DOMAIN scoredCombinations[1] :
          LET s == scoredCombinations[1][k]
          IN  /\ \E i \in DOMAIN s.fingering : s.fingering[i].fret = 0
              /\ \E i \in DOMAIN s.fingering : s.fingering[i].fret >= 1
              /\ s.fretRange > FrettedSpan(s.fingering)
              /\ s.fretRange = Max({ s.fingering[i].fret : i \in DOMAIN s.fingering })

\* the string positions of a fingering pressed at a fret
StringsAt(f, fret) == {i \in DOMAIN f : f[i].fret = fret}

\* the frets above 0 that two or more strings share, these strings lying
\* side by side without a gap
BarreFrets(f) ==
    { fret \in { f[i].fret : i \in DOMAIN f } \ {-1, 0} :
        LET S == StringsAt(f, fret)
        IN  Cardinality(S) >= 2 /\ Max(S) - Min(S) + 1 = Cardinality(S) }

AdjacentPairShares(f) ==
    \E i \in 1..(Len(f) - 1) : f[i].fret > 0 /\ f[i + 1].fret = f[i].fret

\* C22 (as claimed): the barre term used in scoring is 1 if some two
\* non-muted strings at adjacent string positions share the same fret > 0,
\* and 0 otherwise; it takes no other value
C22_BarreTermIsFlag ==
    ScoredRan =>
        \A k \in DOMAIN scoredCombinations[1] :
            LET s == scoredCombinations[1][k]
            IN  s.barreRequirement = IF AdjacentPairShares(s.fingering) THEN 1 ELSE 0

\* C22 (amended): the barre term used in scoring is the number of strings
\* pressed at the lowest fret > 0 that two or more strings share with no gap
\* between their string positions, and 0 when there is no such fret; it is
\* 0 or a count from 2 to 6, weighted as it is in the score
C22_BarreTermCountsStrings ==
    ScoredRan =>
        \A k \in DOMAIN scoredCombinations[1] :
            LET s == scoredCombinations[1][k]
                frets == BarreFrets(s.fingering)
            IN  /\ s.barreRequirement =
                      IF frets = {} THEN 0
                      ELSE Cardinality(StringsAt(s.fingering, Min(frets)))
                /\ s.barreRequirement \in {0} \cup 2..6
                /\ s.score = ScoreWithRange(s, s.fretRange)

\* a scored candidate with three strings side by side at one fret, scored
\* with a barre term of 3
C22_Witness ==
    /\ ScoredRan
    /\ \E k \in DOMAIN scoredCombinations[1] :
          LET s == scoredCombinations[1][k]
          IN  /\ s.barreRequirement = 3
              /\ \E i \in 1..4 : /\ s.fingering[i].fret > 0
                                 /\ s.fingering[i + 1].fret = s.fingering[i].fret
                                 /\ s.fingering[i + 2].fret = s.fingering[i].fret

\* the MIDI number of the lattice note at a position of an occurrence list
MidiAt(position) == calculateMidiNumber(NOTES_DATA[position.string][position.fret + 1])

StringIndex(string) == IndexOf(StringsOrderTable, string)

\* C23 (as claimed): every occurrence list of findAllPossiblePositions is in
\* ascending order of the MIDI number of the lattice note, positions of
\* equal MIDI number in string order, lowest string first
C23_OccurrencesByAscendingPitch ==
    (FallbackRan /\ possiblePositions # None) =>
        \A n \in DOMAIN possiblePositions[1] :
            LET list == possiblePositions[1][n]
            IN  \A i, j \in DOMAIN list :
                    i < j =>
                        \/ MidiAt(list[i]) < MidiAt(list[j])
                        \/ /\ MidiAt(list[i]) = MidiAt(list[j])
                           /\ StringIndex(list[i].string) < StringIndex(list[j].string)

\* the pitch classes the non-muted strings of a fingering sound
SoundedTones(f) == { f[i].note : i \in NonMuted(f) }

\* C24 (as claimed): every pitch class parseChord returns for a supported
\* chord symbol is sounded by at least one non-muted string of the best
\* fingering of findOptimalFingering
C24_EveryChordToneSounded ==
    HasBest => Range(parseResult[1].notes) \subseteq SoundedTones(BestFingering)

\* the entry of the best fingering on the string of the anchor
AnchorEntry == BestFingering[StringIndex(anchor[1].string) + 1]

LowestSounding(f) == f[Min(NonMuted(f))]

C26_LatticeIsChromatic ==
    /\ DOMAIN NOTES_DATA = Strings
    /\ \A s \in Strings :
          /\ Len(NOTES_DATA[s]) = 8
          /\ \A f \in 0..6 :
                calculateMidiNumber(noteAt(s, f + 1)) = calculateMidiNumber(noteAt(s, f)) + 1

\* the fingering has the fret and the note of the catalog entry on every
\* string the entry sounds
IdenticalToEntry(f, entry) ==
    \A i \in DOMAIN entry :
        entry[i].fret # -1 => (f[i].fret = entry[i].fret /\ f[i].note = entry[i].note)

\* C27 (as claimed): for a chord name that is a key of the standard-shape
\* catalog (C, G, D, Am, Em) the fingering is compared against that key's
\* own entry, so a fingering identical to the entry has similarity 1
C27_CatalogKeyMatchesOwnEntry ==
    HasBest =>
        \A k \in DOMAIN STANDARD_CHORDS :
            (/\ optimizeResult[1].chordName = STANDARD_CHORDS[k][1]
             /\ IdenticalToEntry(BestFingering, STANDARD_CHORDS[k][2])) =>
                optimizeResult[1].bestFingering[1].standardMatch = ScoreScale

\* C28 (as claimed): in every state reached by calls of
\* loadAndCacheAudioBuffer (forced or not, succeeding or failing) and of
\* clearAudioBufferCache, pendingLoads holds the path of every load that is
\* in flight, no load started without forceReload began while another load
\* of its path was in flight, and pendingLoads is empty when no load is in
\* flight
C28_PendingLoadsTracksLoadsInFlight ==
    /\ \A l \in loadsInFlight : pendingLoads[l.filePath] # None
    /\ \A l \in loadsInFlight : ~l.forceReload => ~l.overlaps
    /\ loadsInFlight = {} => \A p \in CachePaths : pendingLoads[p] = None

\* the calls of playChordWithFingering in a given state
CallsIn(state) == {id \in DOMAIN calls : calls[id].state = state}

\* C29 (as claimed): at most one playback started by the Play button is
\* active at any time; a Play click that arrives while an earlier one still
\* awaits playChordWithFingering, or while isPlaying is true, starts no
\* further playback; and the playbackResult Stop acts on, while isPlaying is
\* true, is the result of the only active playback
C29_OnePlaybackAtATime ==
    /\ Cardinality(CallsIn("sounding")) <= 1
    /\ Cardinality(CallsIn("awaited") \cup CallsIn("sounding")) <= 1
    /\ isPlaying =>
          /\ playbackResult # None
          /\ playbackResult[1].success
          /\ CallsIn("sounding") = {playbackResult[1].id}

\* C30 (as claimed): the auto-stop timer of a Play click stops only the
\* playback that armed it: a playback the user does not stop sounds for
\* AutoStopDelay seconds and is then ended by its own auto-stop timer, never
\* earlier by the timer of another playback
C30_AutoStopEndsItsOwnPlayback ==
    \A id \in DOMAIN calls :
        /\ calls[id].state = "sounding" => now <= calls[id].startedAt + AutoStopDelay
        /\ (calls[id].state = "stopped" /\ calls[id].stoppedBy # "user") =>
              /\ calls[id].stoppedBy = "autoStop"
              /\ calls[id].stopper = id
              /\ calls[id].stoppedAt = calls[id].startedAt + AutoStopDelay


====
